---- MODULE Spec2Model ----
(***************************************************************************)
(* Task / TaskQueue of packwerk-vscode (src/src/taskQueue.ts) and the task *)
(* bodies that the Pks class (src/src/pks.ts) and the older Packwerk class *)
(* (src/src/extension.ts, lines 404-686) put on the queue.                 *)
(*                                                                         *)
(* JavaScript runs one job at a time.  A handler (a command, a save event, *)
(* the completion callback of cp.exec) runs to completion; the continuation*)
(* of `await task.run()` in TaskQueue.kick is a promise job (microtask)    *)
(* and runs before the next handler.  Each handler is one action; the      *)
(* continuation is the action KickResume, and every handler is disabled    *)
(* while a continuation is due (MicrotaskDue).                             *)
(***************************************************************************)
EXTENDS Naturals, Integers, Sequences, FiniteSets, TLC

\* ---------------------------------------------------------------- bounds
MaxTasks == 3
MaxUris == 2
MaxLiveTasks == 2
MaxDiagTasks == 4
MaxText == 5
MaxRunning == 2
MaxLines == 2
MaxFileLines == 4
MaxDiagnostics == 2
MaxRefreshes == 3

Tasks == 1..MaxTasks
DiagTasks == 1..MaxDiagTasks
Uris == 1..MaxUris

VARIABLES
  tk,        \* tk[t]: the fields of Task object t (and its instrumentation)
  tasks,     \* TaskQueue.tasks, front first
  busy,      \* TaskQueue.busy
  awaited,   \* the local `task` of kick() while it is suspended at `await task.run()`; 0 when kick is not suspended
  enq,       \* history: the tasks in the order enqueue() accepted them
  started,   \* history: the tasks in the order their bodies were invoked
  threw,     \* history: the task for which the last step's enqueue() threw, else 0
  owner,     \* who drives the queue: "client" (any caller of the TaskQueue API), "Pks" or "Packwerk"
  canceledUri, \* history: the identity given to TaskQueue.cancel when the last step was a call of it, else 0
  diag,      \* the DiagnosticCollection 'ruby' (extension.ts:15, Pks.diag): file -> list of diagnostics
  validateDiag,  \* Pks.validateDiag: file -> list of cycle diagnostics
  highlightDiag, \* the DiagnosticCollection 'ruby-highlights' (extension.ts:19), written by onResults
  lastExec,  \* history: the task, the output and the calls made when the last step was a completion callback of cp.exec
  scope,     \* what is observed: "queue" (the TaskQueue and its callers), "bodies" (the task bodies on it), "diagnostics" (Pks and the collections) or "clear" (the same, and which tasks a clear() met)
  input,     \* the argument of the function that is called on its own (a text, a list of lines, a list of diagnostics)
  output,    \* what that call returned and the calls it made on its surroundings; for a handler of the extension, the event it was called with
  config,    \* Pks.config.onSave (pks.ts:33), the value last read by getConfig
  executable, \* Pks.config.executable, the value last read by getConfig: the words of the setting
  running,   \* the mutation commands whose process, started by a command handler of the extension, has not exited
  cache,     \* ConstantDefinitionCache.cache: constant name -> path, "undefined" where the map has no entry
  isLoading, \* ConstantDefinitionCache.isLoading
  listing,   \* the number of 'pks list-definitions' processes that have not exited
  refreshes, \* the promises returned by ConstantDefinitionCache.refresh, in the order of the calls
  highlightsEnabled, \* the local highlightsEnabled of activate (extension.ts:29)
  rootPath   \* vscode.workspace.rootPath is defined: a workspace folder is open

vars == <<tk, tasks, busy, awaited, enq, started, threw, owner, canceledUri,
          diag, validateDiag, highlightDiag, lastExec, scope, input, output, config,
          executable, running, cache, isLoading, listing, refreshes, highlightsEnabled, rootPath>>

\* The variables of the TaskQueue, the task bodies and the collections, and
\* the variables that these do not touch.
queueVars == <<tk, tasks, busy, awaited, enq, started, threw, owner, canceledUri,
               diag, validateDiag, highlightDiag, lastExec, scope>>
extVars == <<input, output, config, executable, running, cache, isLoading, listing, refreshes,
             highlightsEnabled, rootPath>>

\* The variables that no handler of the queue, of a task body or of a
\* completion callback of a check assigns.
restVars == <<input, config, executable, running, cache, isLoading, listing, refreshes,
              highlightsEnabled, rootPath>>
cacheVars == <<cache, isLoading, listing, refreshes>>
editorVars == <<highlightsEnabled, rootPath>>

\* No function has been called on its own.
NoCall == [fn |-> "none"]

\* The constant names and the paths of the definitions that the checker
\* lists; new Map() (constantDefinitionCache.ts:5).
Names == {<<":", ":", "A">>, <<":", ":", "B", "c">>}
NoEntries == [n \in Names |-> "undefined"]

\* The default of the setting 'ruby.pks.executable' (configuration.ts:15).
DefaultExecutable == <<"pks", "check">>

\* No function is looked at on its own; the settings are the defaults
\* (configuration.ts:19).
InitExt ==
  /\ input = << >>
  /\ output = NoCall
  /\ config = TRUE
  /\ executable = DefaultExecutable
  /\ running = {}
  /\ cache = NoEntries
  /\ isLoading = FALSE
  /\ listing = 0
  /\ refreshes = << >>
  /\ highlightsEnabled = FALSE
  /\ rootPath = TRUE

\* The mutable state that Task and TaskQueue methods work on.
\*   effects: the calls a handler makes on its surroundings ("warning":
\*   vscode.window.showWarningMessage, "onResults", "onComplete").
St == [tk |-> tk, tasks |-> tasks, busy |-> busy, awaited |-> awaited,
       enq |-> enq, started |-> started,
       diag |-> diag, validateDiag |-> validateDiag, highlightDiag |-> highlightDiag,
       effects |-> {}]

\* Pks.getBaseExecutable (pks.ts:44-50): the setting without a last word 'check'.
GetBaseExecutable(exe) ==
  IF Len(exe) > 1 /\ exe[Len(exe)] = "check" THEN SubSeq(exe, 1, Len(exe) - 1) ELSE exe

\* The command line of a body of Pks (pks.ts:181, 267, 425, 534), the file
\* name left out; the validate body uses the baseExe of its closure.
Command(task) ==
  CASE task.kind = "execute" -> executable \o <<"--json">>
    [] task.kind = "highlight" -> executable \o <<"--json", "--ignore-recorded-violations">>
    [] task.kind = "all" -> executable \o <<"--json">>
    [] task.kind = "validate" -> task.baseExe \o <<"validate", "--json">>
    [] OTHER -> << >>

\* class Task, fields after construction (taskQueue.ts:15-20, 27-30).
\*   promise: state of the promise returned by run() ("none" before run()).
\*   proc: the work started by the body: "none", "running", "killed" (cancel-callback called), "exited".
\*   bodyCalls, onCancelCalls, resolveCalls: how often the body, the
\*   cancel-callback and the promise's resolve function were called.
\*   finished: token.finished() has been called.
\*   normal: the body's work completed and saw isCanceled = false.
\*   cb: what the completion callback of cp.exec did ("none": not called yet).
\*   baseExe: the local baseExe that the body of a validate task closes over
\*   (pks.ts:303); command: the command line the body gave to cp.exec.
\*   cleared: history, kept where the clears are observed: clear() was called
\*   for the task's identity after the task was enqueued.
NewTask(u, k) ==
  [uri |-> u, kind |-> k, isEnqueued |-> FALSE, isCanceled |-> FALSE,
   resolver |-> FALSE, onCancel |-> FALSE, promise |-> "none", proc |-> "none",
   bodyCalls |-> 0, onCancelCalls |-> 0, resolveCalls |-> 0, finished |-> FALSE,
   normal |-> FALSE, cb |-> "none", cleared |-> FALSE,
   baseExe |-> IF k = "validate" THEN GetBaseExecutable(executable) ELSE << >>,
   command |-> << >>]

Settled(p) == p \in {"resolved", "rejected"}

\* Task.resolveOnce (taskQueue.ts:63-68): call the resolve function if it is
\* still stored, then forget it.  resolve() on a settled promise has no effect.
ResolveOnce(S, t) ==
  IF S.tk[t].resolver
    THEN [S EXCEPT !.tk[t].promise = IF @ = "pending" THEN "resolved" ELSE @,
                   !.tk[t].resolveCalls = @ + 1,
                   !.tk[t].resolver = FALSE]
    ELSE S

\* Task.cancel without the `if (this.isCanceled) return` guard.
TaskCancelNoGuard(S, t) ==
  LET S1 == [S EXCEPT !.tk[t].isCanceled = TRUE]
      S2 == IF S1.tk[t].onCancel
              THEN [S1 EXCEPT !.tk[t].onCancelCalls = @ + 1,
                              !.tk[t].proc = IF @ = "running" THEN "killed" ELSE @]
              ELSE S1
  IN ResolveOnce(S2, t)

\* Task.cancel that does not call the cancel-callback.
TaskCancelNoKill(S, t) ==
  IF S.tk[t].isCanceled
    THEN S
    ELSE ResolveOnce([S EXCEPT !.tk[t].isCanceled = TRUE], t)

\* Task.cancel (taskQueue.ts:52-61).  The cancel-callback of every body of the
\* repository is `() => process.kill()`.
TaskCancel(S, t) ==
  IF S.tk[t].isCanceled
    THEN S
    ELSE LET S1 == [S EXCEPT !.tk[t].isCanceled = TRUE]
             S2 == IF S1.tk[t].onCancel
                     THEN [S1 EXCEPT !.tk[t].onCancelCalls = @ + 1,
                                     !.tk[t].proc = IF @ = "running" THEN "killed" ELSE @]
                     ELSE S1
         IN ResolveOnce(S2, t)

\* Task.run without the `if (this.isCanceled)` early return.
TaskRunNoCheck(S, t, thr) ==
  LET S1 == [S EXCEPT !.tk[t].resolver = TRUE,
                      !.tk[t].bodyCalls = @ + 1,
                      !.started = Append(@, t)]
  IN IF thr
       THEN [S1 EXCEPT !.tk[t].promise = "rejected"]
       ELSE [S1 EXCEPT !.tk[t].promise = "pending",
                       !.tk[t].onCancel = TRUE,
                       !.tk[t].proc = "running",
                       !.tk[t].command = Command(S.tk[t])]

\* Task.run (taskQueue.ts:32-50).  thr: the body throws before it returns
\* (child_process.exec throws synchronously when spawn fails with an error
\* other than ENOENT); the Promise constructor turns that into a rejection and
\* onCancel stays undefined.
TaskRun(S, t, thr) ==
  IF S.tk[t].isCanceled
    THEN [S EXCEPT !.tk[t].promise = "resolved"]
    ELSE LET S1 == [S EXCEPT !.tk[t].resolver = TRUE,
                             !.tk[t].bodyCalls = @ + 1,
                             !.started = Append(@, t)]
         IN IF thr
              THEN [S1 EXCEPT !.tk[t].promise = "rejected"]
              ELSE [S1 EXCEPT !.tk[t].promise = "pending",
                              !.tk[t].onCancel = TRUE,
                              !.tk[t].proc = "running",
                              !.tk[t].command = Command(S.tk[t])]

\* The loop that ends on an empty queue without `this.busy = false`.
RunHeadStaysBusy(S, thr) ==
  IF S.tasks = << >>
    THEN [S EXCEPT !.awaited = 0]
    ELSE LET t == Head(S.tasks) IN [TaskRun(S, t, thr) EXCEPT !.awaited = t]

\* The body of the while loop of kick up to the await (taskQueue.ts:119-127):
\* an empty queue ends the loop, otherwise run() of the head is awaited.
RunHead(S, thr) ==
  IF S.tasks = << >>
    THEN [S EXCEPT !.busy = FALSE, !.awaited = 0]
    ELSE LET t == Head(S.tasks) IN [TaskRun(S, t, thr) EXCEPT !.awaited = t]

\* kick without the `if (this.busy) return` guard.
KickNoGuard(S, thr) == RunHead([S EXCEPT !.busy = TRUE], thr)

\* TaskQueue.kick up to its first await (taskQueue.ts:111-127).
Kick(S, thr) ==
  IF S.busy THEN S ELSE RunHead([S EXCEPT !.busy = TRUE], thr)

RECURSIVE CancelAll(_, _, _)
\* TaskQueue.cancel (taskQueue.ts:101-109): forEach over tasks from index i.
CancelAll(S, u, i) ==
  IF i > Len(S.tasks)
    THEN S
    ELSE LET t == S.tasks[i]
         IN CancelAll(IF S.tk[t].uri = u THEN TaskCancel(S, t) ELSE S, u, i + 1)

\* cancel that leaves out the task at the head (the one that is running).
QueueCancelQueuedOnly(S, u) == CancelAll(S, u, 2)

\* cancel that calls task.cancel() on every task of the queue, whatever its identity.
QueueCancelAnyUri(S, u) ==
  LET RECURSIVE All(_, _)
      All(R, i) == IF i > Len(R.tasks) THEN R ELSE All(TaskCancel(R, R.tasks[i]), i + 1)
  IN All(S, 1)

\* cancel that stops at the first task of the identity (find instead of forEach).
QueueCancelFirstMatch(S, u) ==
  LET M == {i \in 1..Len(S.tasks) : S.tk[S.tasks[i]].uri = u}
  IN IF M = {} THEN S
     ELSE TaskCancel(S, S.tasks[CHOOSE i \in M : \A j \in M : i <= j])

QueueCancel(S, u) == CancelAll(S, u, 1)

\* enqueue without the `this.cancel(task.uri)` call.
EnqueueNewNoCancel(S, t, thr) ==
  Kick([S EXCEPT !.tk[t].isEnqueued = TRUE,
                 !.tasks = Append(@, t),
                 !.enq = Append(@, t)], thr)

\* TaskQueue.enqueue for a task that passes the isEnqueued check (taskQueue.ts:94-98).
EnqueueNew(S, t, thr) ==
  LET S1 == QueueCancel(S, S.tk[t].uri)
      S2 == [S1 EXCEPT !.tk[t].isEnqueued = TRUE,
                       !.tasks = Append(@, t),
                       !.enq = Append(@, t)]
  IN Kick(S2, thr)

\* TaskQueue.enqueue (taskQueue.ts:89-99); an already enqueued task makes it throw
\* before anything is changed.
EnqueueThrows(S, t) == S.tk[t].isEnqueued

\* enqueue with the isEnqueued check placed after `this.cancel(task.uri)`.
EnqueueCancelFirst(S, t, thr) ==
  IF EnqueueThrows(S, t) THEN QueueCancel(S, S.tk[t].uri) ELSE EnqueueNew(S, t, thr)

Enqueue(S, t, thr) == IF EnqueueThrows(S, t) THEN S ELSE EnqueueNew(S, t, thr)

\* The continuation with tasks.pop() in place of tasks.shift().
ResumePop(S, thr) == RunHead([S EXCEPT !.tasks = SubSeq(@, 1, Len(@) - 1)], thr)

\* The continuation without the try/catch: a rejection ends kick, busy stays true.
ResumeNoCatch(S, thr) ==
  IF S.tk[S.awaited].promise = "rejected"
    THEN [S EXCEPT !.awaited = 0]
    ELSE RunHead([S EXCEPT !.tasks = Tail(@)], thr)

\* The continuation of `await task.run()` (taskQueue.ts:128-133 and the next
\* iteration up to the await): a rejection is caught and logged, the head is
\* shifted off, and the loop goes on.
Resume(S, thr) == RunHead([S EXCEPT !.tasks = Tail(@)], thr)

\* run() called without `await`: kick goes on at once.
MicrotaskDueNoAwait == awaited # 0

\* A promise job is due: kick is suspended on a promise that has settled.
MicrotaskDue == awaited # 0 /\ Settled(tk[awaited].promise)

\* ------------------------------------------------- output and diagnostics
\* A JSON number or an absent field (typeof x === 'number' / 'undefined'), and
\* the NaN that arithmetic on undefined gives.
Num(n) == [t |-> "number", v |-> n]
Undefined == [t |-> "undefined", v |-> 0]
NaN == [t |-> "NaN", v |-> 0]

\* A JSON string, as its sequence of characters, or an absent field.
Str(s) == [t |-> "string", v |-> s]
UndefinedStr == [t |-> "undefined", v |-> << >>]

\* x - 1 and x + y of JavaScript on these values.
Minus1(x) == IF x.t = "number" THEN Num(x.v - 1) ELSE NaN
Plus(x, y) == IF x.t = "number" /\ y.t = "number" THEN Num(x.v + y.v) ELSE NaN

\* interface PksViolation (pksOutput.ts:1-11); message and strict are not
\* looked at by the claims and are left out.
Violation(f, l, c, n, ty) ==
  [file |-> f, line |-> l, column |-> c, constant_name |-> n,
   violation_type |-> ty, referencing_pack_name |-> "packs/a", defining_pack_name |-> "packs/b"]

\* interface PksOutput (pksOutput.ts:13-18); an absent optional bucket is the
\* empty list (`|| []`, pks.ts:134-138).
CheckResult(v, st, sm) == [violations |-> v, stale_violations |-> st, strict_mode_violations |-> sm]

\* hasValidLocation that looks at the line only.
HasValidLocationLineOnly(v) == v.line.t = "number"

\* Pks.hasValidLocation (pks.ts:58-60).
HasValidLocation(v) == v.line.t = "number" /\ v.column.t = "number"

\* The merge of the buckets in highlight mode only.
BucketsByMode(R, mode) ==
  IF mode = "highlight"
    THEN R.violations \o R.stale_violations \o R.strict_mode_violations
    ELSE R.violations

\* The spread of the three buckets (pks.ts:134-137, 234-237, 474-477): the
\* same expression in executeHighlights, executeAll and execute.
Buckets(R, mode) == R.violations \o R.stale_violations \o R.strict_mode_violations

\* allViolations (pks.ts:134-138, 234-238, 474-478).
AllViolations(R, mode) == SelectSeq(Buckets(R, mode), HasValidLocation)

\* ViolationMetadata (pksOutput.ts:21-27) as attached at pks.ts:91-98, 163-170.
Metadata(offence) ==
  [file |-> offence.file, violation_type |-> offence.violation_type,
   constant_name |-> offence.constant_name,
   referencing_pack_name |-> offence.referencing_pack_name,
   defining_pack_name |-> offence.defining_pack_name]

\* Reading .length or calling .replace on an absent constant_name raises a
\* TypeError (pks.ts:80, 145).
Throws(offence) == offence.constant_name.t # "string"

\* A diagnostic with the end column at the start column.
CreateDiagnosticEmptyRange(offence) ==
  [line |-> Minus1(offence.line), startCol |-> offence.column,
   endCol |-> offence.column,
   severity |-> "Error", source |-> "pks", hasMeta |-> TRUE, meta |-> Metadata(offence)]

\* Pks.createDiagnostic with the default severity (pks.ts:72-101).
CreateDiagnostic(offence) ==
  [line |-> Minus1(offence.line), startCol |-> offence.column,
   endCol |-> Plus(Num(Len(offence.constant_name.v)), offence.column),
   severity |-> "Error", source |-> "pks", hasMeta |-> TRUE, meta |-> Metadata(offence)]

\* offence.constant_name.replace(/^::/, '') (pks.ts:145).
DisplayName(n) ==
  IF Len(n) >= 2 /\ n[1] = ":" /\ n[2] = ":" THEN SubSeq(n, 3, Len(n)) ELSE n

\* The diagnostic built in executeHighlights (pks.ts:143-172).
HighlightDiagnostic(offence) ==
  [line |-> Minus1(offence.line), startCol |-> offence.column,
   endCol |-> Plus(offence.column, Num(Len(DisplayName(offence.constant_name.v)))),
   severity |-> "Information", source |-> "pks", hasMeta |-> TRUE, meta |-> Metadata(offence)]

\* The diagnostic built by Packwerk in extension.ts (extension.ts:482-495,
\* 562-576): no metadata, source 'packwerk'.
NoMetadata ==
  [file |-> 0, violation_type |-> "", constant_name |-> UndefinedStr,
   referencing_pack_name |-> "", defining_pack_name |-> ""]

PackwerkDiagnostic(offence) ==
  [line |-> Minus1(offence.line), startCol |-> offence.column,
   endCol |-> Plus(Num(Len(offence.constant_name.v)), offence.column),
   severity |-> "Error", source |-> "packwerk", hasMeta |-> FALSE, meta |-> NoMetadata]

\* The diagnostics that the forEach over the violations pushes, one for each
\* (pks.ts:483-485, 246-253; pks.ts:143-173; extension.ts:482-499).
PksDiagnostics(vs) == [i \in 1..Len(vs) |-> CreateDiagnostic(vs[i])]
HighlightDiagnostics(vs) == [i \in 1..Len(vs) |-> HighlightDiagnostic(vs[i])]
PackwerkDiagnostics(vs) == [i \in 1..Len(vs) |-> PackwerkDiagnostic(vs[i])]

\* The violations of a list that name file f.
InFile(vs, f) == SelectSeq(vs, LAMBDA v : v.file = f)

\* Some element makes the handling raise.
AnyThrows(s) == \E i \in 1..Len(s) : Throws(s[i])

EmptyResult == CheckResult(<< >>, << >>, << >>)

\* What cp.exec hands to its callback: err is the code of the error ("none"
\* when there is none), kind the class of stdout (empty, text that is not
\* JSON, JSON), res the decoded JSON of a check and edges the files of the
\* cycle edges that a validate run reports and finds in their package.yml.
Output(e, k, r, ed) == [err |-> e, kind |-> k, res |-> r, edges |-> ed]

\* A collection without entries.
NoDiagnostics == [f \in Uris |-> << >>]

\* lastExec: the task, its kind and identity, whether it was canceled when
\* the callback began, the output given, the diagnostic collection before the
\* callback, and the calls the callback made.
NoExec ==
  [task |-> 0, kind |-> "none", uri |-> 0, canceled |-> FALSE, cleared |-> FALSE,
   out |-> Output("none", "empty", EmptyResult, << >>),
   diagBefore |-> NoDiagnostics, effects |-> {}]

NoTask == NewTask(0, "none")

\* A Task object that nothing refers to any more: it has left the queue and
\* no process holds its callback.
Unreferenced(S, t) ==
  /\ S.tk[t].isEnqueued
  /\ \A i \in 1..Len(S.tasks) : S.tasks[i] # t
  /\ S.tk[t].proc \notin {"running", "killed"}

RECURSIVE Sorted(_)
\* The numbers of a set in increasing order.
Sorted(A) ==
  IF A = {} THEN << >>
  ELSE LET m == CHOOSE m \in A : \A a \in A : m <= a IN <<m>> \o Sorted(A \ {m})

\* Where the diagnostics are observed the histories of the queue are not
\* kept and an unreferenced Task object is forgotten, as the garbage
\* collector does.  Task objects have no names of their own: the ones still
\* referenced are numbered by their place in the queue, followed by the
\* ones that only a process refers to; the numbers after them are free.
Collect(S) ==
  LET held == {t \in DOMAIN S.tk : S.tk[t] # NoTask /\ ~Unreferenced(S, t)
                                    /\ \A i \in 1..Len(S.tasks) : S.tasks[i] # t}
      order == S.tasks \o Sorted(held)
  IN [S EXCEPT !.tk = [i \in DOMAIN S.tk |-> IF i <= Len(order) THEN S.tk[order[i]] ELSE NoTask],
               !.tasks = [i \in 1..Len(S.tasks) |-> i],
               !.awaited = IF S.awaited = 0 THEN 0
                           ELSE CHOOSE i \in 1..Len(S.tasks) : S.tasks[i] = S.awaited,
               !.enq = << >>, !.started = << >>]

Kept(S) == IF scope \in {"diagnostics", "clear"} THEN Collect(S) ELSE S

\* The step is a handler that leaves S behind in the queue, the tasks and
\* the collections.
CommitQueue(S, thrown, cu) ==
  \E K \in {Kept(S)} :
    /\ tk' = K.tk
    /\ tasks' = K.tasks
    /\ busy' = K.busy
    /\ awaited' = K.awaited
    /\ enq' = K.enq
    /\ started' = K.started
    /\ threw' = thrown
    /\ owner' = owner
    /\ canceledUri' = (IF scope = "queue" THEN cu ELSE 0)
    /\ diag' = K.diag
    /\ validateDiag' = K.validateDiag
    /\ highlightDiag' = K.highlightDiag
    /\ lastExec' = NoExec
    /\ scope' = scope

\* The same for a handler of the queue's clients or of Pks' methods: it is
\* no handler of the extension's events.
CommitCall(S, thrown, cu) ==
  /\ CommitQueue(S, thrown, cu)
  /\ output' = NoCall
  /\ UNCHANGED restVars

Commit(S, thrown) == CommitCall(S, thrown, 0)

\* The step is the completion callback of task t, called with out.
CommitExec(S, t, out) ==
  \E K \in {Kept(S)} :
    /\ tk' = K.tk
    /\ tasks' = K.tasks
    /\ busy' = K.busy
    /\ awaited' = K.awaited
    /\ enq' = K.enq
    /\ started' = K.started
    /\ threw' = 0
    /\ owner' = owner
    /\ canceledUri' = 0
    /\ diag' = K.diag
    /\ validateDiag' = K.validateDiag
    /\ highlightDiag' = K.highlightDiag
    /\ lastExec' = (IF scope \in {"diagnostics", "clear"}
                      THEN [task |-> t, kind |-> tk[t].kind, uri |-> tk[t].uri,
                            canceled |-> tk[t].isCanceled, cleared |-> tk[t].cleared,
                            out |-> out,
                            diagBefore |-> diag, effects |-> K.effects]
                      ELSE NoExec)
    /\ scope' = scope
    /\ output' = NoCall
    /\ UNCHANGED restVars

\* ------------------------------------------------- TaskQueue and its clients
\* The tasks exist detached; each has its resource identity.  Task objects and
\* identities are opaque, so they are numbered in the order of first use: tasks
\* in the order enqueue() accepts them (see DoEnqueue), identities in the
\* order of the tasks that carry them.
UrisUpTo(f, t) == {f[s].uri : s \in 1..(t - 1)}

Init ==
  /\ tk \in {f \in [Tasks -> {NewTask(u, "any") : u \in Uris}] :
              \A t \in Tasks : \A u \in 1..(f[t].uri - 1) : u \in UrisUpTo(f, t)}
  /\ tasks = << >>
  /\ busy = FALSE
  /\ awaited = 0
  /\ enq = << >>
  /\ started = << >>
  /\ threw = 0
  /\ owner = "client"
  /\ canceledUri = 0
  /\ diag = NoDiagnostics
  /\ validateDiag = NoDiagnostics
  /\ highlightDiag = NoDiagnostics
  /\ lastExec = NoExec
  /\ scope = "queue"
  /\ InitExt

\* A client calls queue.enqueue(t).
DoEnqueue(t) ==
  /\ ~MicrotaskDue
  /\ tk[t].isEnqueued \/ \A s \in 1..(t - 1) : tk[s].isEnqueued
  /\ \E thr \in BOOLEAN : Commit(Enqueue(St, t, thr), IF EnqueueThrows(St, t) THEN t ELSE 0)

\* A client calls queue.cancel(u).
DoQueueCancel(u) ==
  /\ ~MicrotaskDue
  /\ CommitCall(QueueCancel(St, u), 0, u)

\* A client calls t.cancel() on a task it holds.
DoTaskCancel(t) ==
  /\ ~MicrotaskDue
  /\ Commit(TaskCancel(St, t), 0)

\* token.finished() (taskQueue.ts:44-46).
TokenFinished(S, t) == ResolveOnce([S EXCEPT !.tk[t].finished = TRUE], t)

\* The asynchronous work started by a body ends; it completes normally when it
\* finds isCanceled false.
WorkDone(S, t) ==
  [S EXCEPT !.tk[t].proc = "exited", !.tk[t].normal = ~S.tk[t].isCanceled]

\* The work of a body ends and calls token.finished(), or a body that has
\* called token.finished() calls it again.
DoFinished(t) ==
  /\ ~MicrotaskDue
  /\ tk[t].proc \in {"running", "killed"} \/ tk[t].finished
  /\ Commit(TokenFinished(IF tk[t].proc \in {"running", "killed"} THEN WorkDone(St, t) ELSE St, t), 0)

KickResume ==
  /\ MicrotaskDue
  /\ \E thr \in BOOLEAN : Commit(Resume(St, thr), 0)

Next ==
  \/ \E t \in Tasks : DoEnqueue(t)
  \/ \E u \in Uris : DoQueueCancel(u)
  \/ \E t \in Tasks : DoTaskCancel(t)
  \/ \E t \in Tasks : DoFinished(t)
  \/ KickResume

Spec == Init /\ [][Next]_vars

\* ------------------------------------------------ Pks and Packwerk on the queue
\* Documents are the identities 1..MaxUris; whole-workspace and validate
\* runs use the sentinel identities 'pks:all' and 'pks:validate'
\* (pks.ts:213, pks.ts:302; 'packwerk:all' at extension.ts:480).
AllUri == MaxUris + 1
ValidateUri == MaxUris + 2

\* A located violation; one whose constant_name is absent, so that its
\* handling raises; and one without a location.
Located(f, n) == Violation(f, Num(1), Num(0), Str(n), "dependency")
Nameless(f) == Violation(f, Num(1), Num(0), UndefinedStr, "dependency")
Unlocated(f, n) == Violation(f, Undefined, Undefined, Str(n), "privacy")

Json(r) == Output("none", "json", r, << >>)

\* The outputs the queue is checked against: empty output with and without
\* ENOENT, text that is not JSON, a result without violations, and a result
\* whose handling raises.
Outs ==
  {Output("none", "empty", EmptyResult, << >>),
   Output("ENOENT", "empty", EmptyResult, << >>),
   Output("none", "malformed", EmptyResult, << >>),
   Json(EmptyResult),
   Json(CheckResult(<<Nameless(1)>>, << >>, << >>))}

Warn(S) == [S EXCEPT !.effects = @ \cup {"warning"}]

\* Pks.reportError (pks.ts:578-590).
ReportError(S, out) == IF out.err \in {"ENOENT", "127"} THEN Warn(S) ELSE S

\* Packwerk.reportError (extension.ts:668-685); showWarnings is not a setting
\* that configuration.ts reads, so only ENOENT shows a warning.
ReportErrorPackwerk(S, out) == IF out.err = "ENOENT" THEN Warn(S) ELSE S

\* Pks.parse (pks.ts:543-576): null for empty output; for text that is not
\* JSON a warning is shown and null returned.
Parse(S, out) == IF out.kind = "malformed" THEN Warn(S) ELSE S

\* The way onDidExec ended, kept in the task: "noOutput", "parseFailed",
\* "applied", or "threw" when an exception left it.
Done(S, t, c) == [S EXCEPT !.tk[t].cb = c]

Unparsed(S, t, out) == Done(S, t, IF out.kind = "empty" THEN "noOutput" ELSE "parseFailed")

\* The grouping by file and diag.set(entries) (pks.ts:245-262).
ByFile(all) == [f \in Uris |-> PksDiagnostics(InFile(all, f))]
ByFilePackwerk(all) == [f \in Uris |-> PackwerkDiagnostics(InFile(all, f))]

\* onDidExec of execute with this.diag.delete(uri) left out.
OnDidExecExecuteAppend(S, t, out) ==
  LET S1 == Parse(ReportError(S, out), out)
      all == AllViolations(out.res, "execute")
      u == S.tk[t].uri
  IN IF out.kind # "json" THEN Unparsed(S1, t, out)
     ELSE IF AnyThrows(all) THEN Done(S1, t, "threw")
     ELSE Done([S1 EXCEPT !.diag = [f \in Uris |-> IF f = u THEN PksDiagnostics(all)
                                                       ELSE @[f] \o PksDiagnostics(InFile(all, f))]],
               t, "applied")

\* onDidExec of Pks.execute (pks.ts:464-487).
OnDidExecExecute(S, t, out) ==
  LET S1 == Parse(ReportError(S, out), out)
      all == AllViolations(out.res, "execute")
      u == S.tk[t].uri
      S2 == [S1 EXCEPT !.diag[u] = << >>]
  IN IF out.kind # "json" THEN Unparsed(S1, t, out)
     ELSE IF AnyThrows(all) THEN Done(S2, t, "threw")
     ELSE Done([S2 EXCEPT !.diag[u] = PksDiagnostics(all)], t, "applied")

\* onDidExec of executeAll without this.diag.clear().
OnDidExecAllNoClear(S, t, out) ==
  LET S1 == Parse(ReportError(S, out), out)
      all == AllViolations(out.res, "all")
      new == ByFile(all)
  IN IF out.kind # "json" THEN Unparsed(S1, t, out)
     ELSE IF AnyThrows(all) THEN Done(S1, t, "threw")
     ELSE Done([S1 EXCEPT !.diag = [f \in Uris |-> IF new[f] = << >> THEN @[f] ELSE new[f]]],
               t, "applied")

\* onDidExec of executeAll with this.diag.clear() before the parse.
OnDidExecAllClearFirst(S, t, out) ==
  LET S2 == Parse(ReportError([S EXCEPT !.diag = NoDiagnostics], out), out)
      all == AllViolations(out.res, "all")
  IN IF out.kind # "json" THEN Unparsed(S2, t, out)
     ELSE IF AnyThrows(all) THEN Done(S2, t, "threw")
     ELSE Done([S2 EXCEPT !.diag = ByFile(all)], t, "applied")

\* onDidExec of Pks.executeAll (pks.ts:217-264).
OnDidExecAll(S, t, out) ==
  LET S1 == Parse(ReportError(S, out), out)
      all == AllViolations(out.res, "all")
      S2 == [S1 EXCEPT !.diag = NoDiagnostics]
  IN IF out.kind # "json" THEN Unparsed(S1, t, out)
     ELSE IF AnyThrows(all) THEN Done(S2, t, "threw")
     ELSE Done([S2 EXCEPT !.diag = ByFile(all)], t, "applied")

\* The onResults callback of applyHighlights (extension.ts:139-144).
OnResults(S, u, diagnostics) ==
  [S EXCEPT !.highlightDiag[u] = diagnostics, !.effects = @ \cup {"onResults"}]

\* onDidExec of Pks.executeHighlights (pks.ts:124-177).
OnDidExecHighlights(S, t, out) ==
  LET S1 == Parse(ReportError(S, out), out)
      all == AllViolations(out.res, "highlight")
      u == S.tk[t].uri
  IN IF out.kind # "json" THEN Unparsed(OnResults(S1, u, << >>), t, out)
     ELSE IF AnyThrows(all) THEN Done(S1, t, "threw")
     ELSE Done(OnResults(S1, u, HighlightDiagnostics(all)), t, "applied")

\* The diagnostic of a cycle edge (pks.ts:387-404).
CycleDiagnostic(f) == [source |-> "pks-validate", file |-> f]

\* The diagnostics of the cycle edges found in file f (pks.ts:340-411).
CycleDiagnostics(edges, f) ==
  LET es == SelectSeq(edges, LAMBDA e : e = f)
  IN [i \in 1..Len(es) |-> CycleDiagnostic(es[i])]

\* onDidExec of executeValidate that clears validateDiag only when it has
\* cycle diagnostics to set.
OnDidExecValidateNoClear(S, t, out) ==
  IF out.kind # "json" THEN Unparsed(S, t, out)
  ELSE IF out.edges = << >> THEN Done(S, t, "applied")
  ELSE Done([S EXCEPT !.validateDiag = [f \in Uris |-> CycleDiagnostics(out.edges, f)]],
            t, "applied")

\* onDidExec of Pks.executeValidate (pks.ts:307-422): validateDiag is cleared
\* first; empty output and text that is not JSON end it without a warning.
OnDidExecValidate(S, t, out) ==
  LET S1 == [S EXCEPT !.validateDiag = NoDiagnostics]
  IN IF out.kind # "json" THEN Unparsed(S1, t, out)
     ELSE Done([S1 EXCEPT !.validateDiag =
                  [f \in Uris |-> CycleDiagnostics(out.edges, f)]],
               t, "applied")

\* The onDidExec of the task's kind.
OnDidExec(S, t, out) ==
  CASE S.tk[t].kind = "execute" -> OnDidExecExecute(S, t, out)
    [] S.tk[t].kind = "all" -> OnDidExecAll(S, t, out)
    [] S.tk[t].kind = "highlight" -> OnDidExecHighlights(S, t, out)
    [] S.tk[t].kind = "validate" -> OnDidExecValidate(S, t, out)

\* onDidExec of Packwerk.execute and Packwerk.executeAll in extension.ts
\* (extension.ts:459-512, 553-580): the violations bucket only, no filter.
OnDidExecPackwerk(S, t, out) ==
  LET S1 == Parse(ReportErrorPackwerk(S, out), out)
      all == out.res.violations
      u == S.tk[t].uri
      S2 == IF S.tk[t].kind = "all" THEN [S1 EXCEPT !.diag = NoDiagnostics]
                                    ELSE [S1 EXCEPT !.diag[u] = << >>]
  IN IF out.kind # "json" THEN Unparsed(S1, t, out)
     ELSE IF AnyThrows(all) THEN Done(S2, t, "threw")
     ELSE IF S.tk[t].kind = "all"
       THEN Done([S2 EXCEPT !.diag = ByFilePackwerk(all)], t, "applied")
       ELSE Done([S2 EXCEPT !.diag[u] = PackwerkDiagnostics(all)], t, "applied")

\* What follows onDidExec when it returned: the work completed normally and
\* onComplete, when given, is called.
Returned(S, t) ==
  IF S.tk[t].cb = "threw" THEN S
  ELSE [S EXCEPT !.tk[t].normal = TRUE, !.effects = @ \cup {"onComplete"}]

\* The callback given to cp.exec by the bodies of Packwerk in extension.ts
\* (extension.ts:517-528, 588-597): no try/finally; token.finished() follows
\* onDidExec and is skipped on the canceled path.
ExecCallbackPackwerk(S, t, out) ==
  LET S0 == [S EXCEPT !.tk[t].proc = "exited"]
  IN IF S0.tk[t].isCanceled
       THEN Done(S0, t, "canceled")
       ELSE LET S1 == OnDidExecPackwerk(S0, t, out)
            IN IF S1.tk[t].cb = "threw" THEN S1 ELSE Returned(TokenFinished(S1, t), t)

\* The callback of Pks with token.finished() at the end of the try block
\* instead of in finally: an exception in the handling skips it.
ExecCallbackPksNoFinally(S, t, out) ==
  LET S0 == [S EXCEPT !.tk[t].proc = "exited"]
  IN IF S0.tk[t].isCanceled
       THEN TokenFinished(Done(S0, t, "canceled"), t)
       ELSE LET S1 == OnDidExec(S0, t, out)
            IN IF S1.tk[t].cb = "threw" THEN S1 ELSE TokenFinished(Returned(S1, t), t)

\* The callback of Pks with the isCanceled check after onDidExec.
ExecCallbackPksLateCheck(S, t, out) ==
  LET S0 == [S EXCEPT !.tk[t].proc = "exited"]
      S1 == OnDidExec(S0, t, out)
  IN TokenFinished(IF S0.tk[t].isCanceled THEN Done(S1, t, "canceled") ELSE Returned(S1, t), t)

\* The callback given to cp.exec by the bodies of Pks (pks.ts:183-197, 269-284,
\* 427-442, 494-508): try { canceled ? return : onDidExec, onComplete }
\* catch { log } finally { token.finished() }.
ExecCallbackPks(S, t, out) ==
  LET S0 == [S EXCEPT !.tk[t].proc = "exited"]
      S1 == IF S0.tk[t].isCanceled
              THEN Done(S0, t, "canceled")
              ELSE Returned(OnDidExec(S0, t, out), t)
  IN TokenFinished(S1, t)

ExecCallback(S, own, t, out) ==
  IF own = "Pks" THEN ExecCallbackPks(S, t, out) ELSE ExecCallbackPackwerk(S, t, out)

\* new Task(uri, body) followed by this.taskQueue.enqueue(task)
\* (pks.ts:179-201, 266-288, 424-446, 489-513); the new task is the next unused one.
Free(S) == {t \in DOMAIN S.tk : S.tk[t] = NoTask}

CreateAndEnqueue(S, u, k, thr) ==
  LET free == Free(S)
      t == CHOOSE t \in free : \A s \in free : t <= s
  IN Enqueue([S EXCEPT !.tk[t] = NewTask(u, k)], t, thr)

InitBodies ==
  /\ tk = [t \in Tasks |-> NoTask]
  /\ tasks = << >>
  /\ busy = FALSE
  /\ awaited = 0
  /\ enq = << >>
  /\ started = << >>
  /\ threw = 0
  /\ owner \in {"Pks", "Packwerk"}
  /\ canceledUri = 0
  /\ diag = NoDiagnostics
  /\ validateDiag = NoDiagnostics
  /\ highlightDiag = NoDiagnostics
  /\ lastExec = NoExec
  /\ scope = "bodies"
  /\ InitExt

InitPks == InitBodies /\ owner = "Pks"

\* Pks.execute / Packwerk.execute for a ruby file document (pks.ts:449-514).
Execute(doc) ==
  /\ ~MicrotaskDue
  /\ Free(St) # {}
  /\ \E thr \in BOOLEAN : Commit(CreateAndEnqueue(St, doc, "execute", thr), 0)

\* Pks.executeHighlights for a ruby file document (pks.ts:105-202).
ExecuteHighlights(doc) ==
  /\ ~MicrotaskDue
  /\ owner = "Pks"
  /\ Free(St) # {}
  /\ \E thr \in BOOLEAN : Commit(CreateAndEnqueue(St, doc, "highlight", thr), 0)

\* executeAll with the validate run enqueued before the check.
ExecuteAllValidateFirst ==
  /\ ~MicrotaskDue
  /\ Cardinality(Free(St)) >= (IF owner = "Pks" THEN 2 ELSE 1)
  /\ \E thr \in BOOLEAN :
       LET S1 == CreateAndEnqueue(St, ValidateUri, "validate", thr)
       IN Commit(IF owner = "Pks" THEN CreateAndEnqueue(S1, AllUri, "all", thr)
                 ELSE CreateAndEnqueue(St, AllUri, "all", thr), 0)

\* Pks.executeAll enqueues the whole-workspace check and then, through
\* executeValidate, the validate run (pks.ts:204-292, 294-447);
\* Packwerk.executeAll enqueues the check only (extension.ts:447-532).
ExecuteAll ==
  /\ ~MicrotaskDue
  /\ Cardinality(Free(St)) >= (IF owner = "Pks" THEN 2 ELSE 1)
  /\ \E thr \in BOOLEAN :
       LET S1 == CreateAndEnqueue(St, AllUri, "all", thr)
       IN Commit(IF owner = "Pks" THEN CreateAndEnqueue(S1, ValidateUri, "validate", thr) ELSE S1, 0)

\* The tasks of the identity doc that exist when clear is called are marked.
Cleared(S, doc) ==
  IF scope # "clear" THEN S
  ELSE [S EXCEPT !.tk = [t \in DOMAIN S.tk |->
                           IF S.tk[t].uri = doc THEN [S.tk[t] EXCEPT !.cleared = TRUE]
                           ELSE S.tk[t]]]

\* clear without this.diag.delete(uri).
ClearDiagKept(S, doc) == Cleared(QueueCancel(S, doc), doc)

\* clear without this.taskQueue.cancel(uri).
ClearNoCancel(S, doc) == [Cleared(S, doc) EXCEPT !.diag[doc] = << >>]

\* Pks.clear, Packwerk.clear (pks.ts:520-526, extension.ts:607-613).
ClearDocument(S, doc) == [Cleared(QueueCancel(S, doc), doc) EXCEPT !.diag[doc] = << >>]

\* ws.onDidCloseTextDocument calls clear(document)
\* (constantDefinitionCache.ts:272).
Clear(doc) ==
  /\ ~MicrotaskDue
  /\ CommitCall(ClearDocument(St, doc), 0, doc)

\* The process of task t exits and cp.exec calls the body's callback with an
\* output of O.
DoExecCallbackFrom(t, O) ==
  /\ ~MicrotaskDue
  /\ tk[t].proc \in {"running", "killed"}
  /\ \E out \in O : CommitExec(ExecCallback(St, owner, t, out), t, out)

DoExecCallback(t) == DoExecCallbackFrom(t, Outs)

NextPks ==
  \/ \E doc \in Uris : Execute(doc)
  \/ \E doc \in Uris : ExecuteHighlights(doc)
  \/ ExecuteAll
  \/ \E doc \in Uris : Clear(doc)
  \/ \E t \in Tasks : DoExecCallback(t)
  \/ KickResume

\* Every task body of the repository, each class on its own queue.
SpecBodies == InitBodies /\ [][NextPks]_vars

\* The queue of Pks.
SpecPks == InitPks /\ [][NextPks]_vars

\* Every spawned process eventually exits and delivers its callback; a due
\* promise job is always run.
Fairness ==
  /\ WF_vars(KickResume)
  /\ \A t \in Tasks : WF_vars(DoExecCallback(t))

\* Progress is checked on the runs of Pks that create at most MaxLiveTasks tasks.
NextLive == NextPks /\ Len(enq') <= MaxLiveTasks

LiveSpecPks == InitPks /\ [][NextLive]_vars /\ Fairness

\* ------------------------------------------------ Pks and the diagnostics
\* The characters of two constant names, one with the leading "::".
NameA == <<":", ":", "A">>
NameB == <<"B", "c">>

\* The outputs a check is given here: text that is not JSON, a result with
\* no violation, and a result with a violation in the first file and one in
\* the last.
CheckOuts ==
  {Output("none", "malformed", EmptyResult, << >>),
   Json(EmptyResult),
   Json(CheckResult(<<Located(1, NameA), Located(MaxUris, NameB)>>, << >>, << >>))}

\* The outputs a validate run is given: no cycle, and a cycle edge in the
\* package.yml that is the first file.
ValidateOuts ==
  {Json(EmptyResult),
   Output("none", "json", EmptyResult, <<1>>)}

DiagOuts(k) == IF k = "validate" THEN ValidateOuts ELSE CheckOuts

InitDiag ==
  /\ tk = [t \in DiagTasks |-> NoTask]
  /\ tasks = << >>
  /\ busy = FALSE
  /\ awaited = 0
  /\ enq = << >>
  /\ started = << >>
  /\ threw = 0
  /\ owner = "Pks"
  /\ canceledUri = 0
  /\ diag = NoDiagnostics
  /\ validateDiag = NoDiagnostics
  /\ highlightDiag = NoDiagnostics
  /\ lastExec = NoExec
  /\ scope = "diagnostics"
  /\ InitExt

\* Every spawn succeeds: no body throws before it returns.
SpawnsSucceed == \A t \in DOMAIN tk : tk[t].promise # "rejected"

\* One document is open in an editor; the single-file and the highlight runs
\* are for it.  The files of the workspace are Uris.
Docs == {1}

NextDiag ==
  /\ \/ \E doc \in Docs : Execute(doc)
     \/ \E doc \in Docs : ExecuteHighlights(doc)
     \/ ExecuteAll
     \/ \E doc \in Docs : Clear(doc)
     \/ \E t \in DiagTasks : DoExecCallbackFrom(t, DiagOuts(tk[t].kind))
     \/ KickResume
  /\ SpawnsSucceed'

\* Pks with the diagnostic collections, on outputs that carry violations.
SpecDiag == InitDiag /\ [][NextDiag]_vars

\* ------------------------------------------------ the diagnostics of one run
\* Violations as the checker can report them: located ones (the first as in
\* the checker's usual output, with a name that begins with "::"), and
\* file-level ones that lack the line, the column, or both.
ViolationA == Violation(1, Num(5), Num(10), Str(NameA), "dependency")
ViolationB == Violation(MaxUris, Num(1), Num(0), Str(NameB), "privacy")
NoLine == Violation(1, Undefined, Num(3), Str(NameB), "privacy")
NoColumn == Violation(1, Num(2), Undefined, Str(NameA), "dependency")
NoLocation == Unlocated(1, NameB)

\* The results a check is given here, in each of the three modes.
ReconcileOuts ==
  {Json(EmptyResult),
   Json(CheckResult(<<ViolationA>>, <<ViolationB>>, << >>)),
   Json(CheckResult(<< >>, << >>, <<ViolationA>>)),
   Json(CheckResult(<<NoLine, ViolationB>>, << >>, << >>)),
   Json(CheckResult(<<ViolationA, NoColumn>>, <<NoLocation>>, <<ViolationB>>))}

\* No run is under way: the queue is empty and no process is left.
Idle == \A t \in DOMAIN tk : tk[t] = NoTask

\* One command at a time: the next is given when the run of the last is over.
NextReconcile ==
  /\ \/ Idle /\ \E doc \in Docs : Execute(doc)
     \/ Idle /\ \E doc \in Docs : ExecuteHighlights(doc)
     \/ Idle /\ ExecuteAll
     \/ \E t \in DiagTasks :
          DoExecCallbackFrom(t, IF tk[t].kind = "validate" THEN ValidateOuts ELSE ReconcileOuts)
     \/ KickResume
  /\ SpawnsSucceed'

\* Pks turning the result of a run into diagnostics.
SpecReconcile == InitDiag /\ [][NextReconcile]_vars

\* ------------------------------------------------ functions called on their own
\* Nothing is queued and the collections are empty while a function is
\* looked at on its own.
Standby ==
  /\ tk = [t \in DiagTasks |-> NoTask]
  /\ tasks = << >>
  /\ busy = FALSE
  /\ awaited = 0
  /\ enq = << >>
  /\ started = << >>
  /\ threw = 0
  /\ owner = "Pks"
  /\ canceledUri = 0
  /\ diag = NoDiagnostics
  /\ validateDiag = NoDiagnostics
  /\ highlightDiag = NoDiagnostics
  /\ lastExec = NoExec
  /\ scope = "functions"
  /\ config = TRUE
  /\ executable = DefaultExecutable
  /\ running = {}
  /\ cache = NoEntries
  /\ isLoading = FALSE
  /\ listing = 0
  /\ refreshes = << >>
  /\ highlightsEnabled = FALSE

\* The sequences over A of length up to n.
SeqsUpTo(A, n) == UNION {[1..k -> A] : k \in 0..n}

\* ------------------------------------------------------------- Pks.parse
\* The text on stdout, as its tokens: the braces of an object, the member
\* "status":"ok" (s), the member "violations":[] (v), the comma and white
\* space.
Chars == {"{", "}", "s", "v", ",", " "}
Texts == SeqsUpTo(Chars, MaxText)

\* White space between tokens is not significant in JSON.
Strip(text) == SelectSeq(text, LAMBDA c : c # " ")

\* The text is a JSON object of the members s and v.
IsJson(text) ==
  LET t == Strip(text)
  IN /\ Len(t) >= 2 /\ t[1] = "{" /\ t[Len(t)] = "}"
     /\ Len(t) = 2 \/ Len(t) % 2 = 1
     /\ \A i \in 2..(Len(t) - 1) : IF i % 2 = 0 THEN t[i] \in {"s", "v"} ELSE t[i] = ","

\* parseOutput of outputParser.ts: the decoded object, or a SyntaxError for
\* text that is not JSON.  A result without violations decodes to one whose
\* buckets are empty or absent, which its readers treat alike.
ParseOutput(text) == [threw |-> ~IsJson(text), value |-> EmptyResult]

\* What Pks.parse returns: null, or the object.
Null == [t |-> "null", v |-> EmptyResult]
Object(r) == [t |-> "object", v |-> r]

\* Pks.parse without the try/catch around parseOutput.
PksParseNoCatch(text) ==
  IF Len(text) < 1 THEN [fn |-> "parse", ret |-> Null, raised |-> FALSE, effects |-> {}]
  ELSE IF ParseOutput(text).threw
    THEN [fn |-> "parse", ret |-> Null, raised |-> TRUE, effects |-> {}]
    ELSE [fn |-> "parse", ret |-> Object(ParseOutput(text).value), raised |-> FALSE, effects |-> {}]

\* Pks.parse with the warning for empty output shown.
PksParseWarnEmpty(text) ==
  IF Len(text) < 1 THEN [fn |-> "parse", ret |-> Null, raised |-> FALSE, effects |-> {"warning"}]
  ELSE IF ParseOutput(text).threw
    THEN [fn |-> "parse", ret |-> Null, raised |-> FALSE, effects |-> {"warning"}]
    ELSE [fn |-> "parse", ret |-> Object(ParseOutput(text).value), raised |-> FALSE, effects |-> {}]

\* Pks.parse (pks.ts:543-576): null for empty output, without a warning;
\* null and a warning when parseOutput raises a SyntaxError; else the object.
PksParse(text) ==
  IF Len(text) < 1 THEN [fn |-> "parse", ret |-> Null, raised |-> FALSE, effects |-> {}]
  ELSE IF ParseOutput(text).threw
    THEN [fn |-> "parse", ret |-> Null, raised |-> FALSE, effects |-> {"warning"}]
    ELSE [fn |-> "parse", ret |-> Object(ParseOutput(text).value), raised |-> FALSE, effects |-> {}]

InitParse == Standby /\ rootPath = TRUE /\ input \in Texts /\ output = NoCall

\* this.parse(stdout) is called.
CallParse ==
  /\ output = NoCall
  /\ output' = PksParse(input)
  /\ UNCHANGED <<queueVars, restVars>>

SpecParse == InitParse /\ [][CallParse]_vars

\* ------------------------------------------------ saves and the configuration
\* The documents an editor can save: a file of the workspace in one of three
\* languages, untitled or not, under the scheme 'file' or another one.
Documents ==
  [uri : Uris, languageId : {"ruby", "gemfile", "plaintext"},
   isUntitled : BOOLEAN, scheme : {"file", "git"}]

\* The documents that Pks.execute does not return early for
\* (pks.ts:449-457; isFileUri, extension.ts:419-421).
Checked(e) ==
  /\ e.languageId \in {"gemfile", "ruby"}
  /\ ~e.isUntitled
  /\ e.scheme = "file"

\* The handler that calls pks.execute whatever onSave is.
OnDidSaveAlways(S, onSave, e, thr) ==
  IF Checked(e) THEN CreateAndEnqueue(S, e.uri, "execute", thr) ELSE S

\* The handler of ws.onDidSaveTextDocument (extension.ts:401-405), with
\* pks.isOnSave (pks.ts:516-518) being onSave, and the Pks.execute it calls
\* (pks.ts:449-514).
OnDidSaveTextDocument(S, onSave, e, thr) ==
  IF onSave /\ Checked(e) THEN CreateAndEnqueue(S, e.uri, "execute", thr) ELSE S

\* The handler that reads the configuration and drops it.
OnDidChangeConfigurationNoStore(old, read) == old

\* The handler that onDidChangeConfiguration(pks) returns
\* (configuration.ts:23-27): pks.config becomes what getConfig reads.
OnDidChangeConfiguration(old, read) == read

\* Pks is constructed with the configuration read then (pks.ts:33); the
\* checks of the activation have finished.
InitSave ==
  /\ tk = [t \in Tasks |-> NoTask]
  /\ tasks = << >>
  /\ busy = FALSE
  /\ awaited = 0
  /\ enq = << >>
  /\ started = << >>
  /\ threw = 0
  /\ owner = "Pks"
  /\ canceledUri = 0
  /\ diag = NoDiagnostics
  /\ validateDiag = NoDiagnostics
  /\ highlightDiag = NoDiagnostics
  /\ lastExec = NoExec
  /\ scope = "bodies"
  /\ input = << >>
  /\ output = NoCall
  /\ config \in BOOLEAN
  /\ executable = DefaultExecutable
  /\ running = {}
  /\ cache = NoEntries
  /\ isLoading = FALSE
  /\ listing = 0
  /\ refreshes = << >>
  /\ highlightsEnabled = FALSE
  /\ rootPath = TRUE

\* The editor saves document e; at most MaxLiveTasks checks are created.
DidSaveTextDocument(e) ==
  /\ ~MicrotaskDue
  /\ Len(enq) < MaxLiveTasks
  /\ \E thr \in BOOLEAN : CommitQueue(OnDidSaveTextDocument(St, config, e, thr), 0, 0)
  /\ output' = [fn |-> "onDidSaveTextDocument", document |-> e]
  /\ UNCHANGED restVars

\* The configurations getConfig can read (configuration.ts:13-21): the
\* executable is one of exes.
Configs(exes) == [executable : exes, onSave : BOOLEAN]

\* The configuration changes and the editor notifies the extension;
\* getConfig then reads read.
DidChangeConfiguration(read) ==
  /\ ~MicrotaskDue
  /\ CommitQueue(St, 0, 0)
  /\ output' = [fn |-> "onDidChangeConfiguration", onSave |-> read.onSave]
  /\ \E new \in {OnDidChangeConfiguration([executable |-> executable, onSave |-> config], read)} :
       /\ config' = new.onSave
       /\ executable' = new.executable
  /\ UNCHANGED <<input, running, cacheVars, editorVars>>

NextSave ==
  \/ \E e \in Documents : DidSaveTextDocument(e)
  \/ \E read \in Configs({executable}) : DidChangeConfiguration(read)
  \/ \E t \in Tasks : DoExecCallbackFrom(t, CheckOuts)
  \/ KickResume

\* Saves and configuration changes, on the queue of Pks.
SpecSave == InitSave /\ [][NextSave]_vars

\* ------------------------------------------------ the mutation commands
\* ruby.pks.addDependency, todoFile, todoPackConstant, todoPackToPack and
\* todoAll (extension.ts:274-392).  A workspace folder is open.  The
\* processes of one command are not told apart, and at most MaxRunning
\* processes run at a time.
Commands == {"addDependency", "todoFile", "todoPackConstant", "todoPackToPack", "todoAll"}

\* The callback that re-runs the check whatever the command reported.
OnCommandExitAlways(S, error, thr) ==
  CreateAndEnqueue(CreateAndEnqueue(S, AllUri, "all", thr), ValidateUri, "validate", thr)

\* The callback each command handler gives to exec (extension.ts:284-292,
\* 309-316, 333-340, 357-364, 381-388): on an error it shows the error
\* message and returns, else it shows the information message and calls
\* pks.executeAll (pks.ts:204-292).
OnCommandExit(S, error, thr) ==
  IF error THEN [S EXCEPT !.effects = {"showErrorMessage"}]
  ELSE [CreateAndEnqueue(CreateAndEnqueue(S, AllUri, "all", thr), ValidateUri, "validate", thr)
          EXCEPT !.effects = {"showInformationMessage"}]

\* The user runs the command c: its handler starts the process.
RunCommand(c) ==
  /\ ~MicrotaskDue
  /\ c \notin running
  /\ Cardinality(running) < MaxRunning
  /\ CommitQueue(St, 0, 0)
  /\ running' = running \cup {c}
  /\ output' = NoCall
  /\ UNCHANGED <<input, config, executable, cacheVars, editorVars>>

\* The process of command c exits and exec calls the callback.
CommandExit(c) ==
  /\ ~MicrotaskDue
  /\ c \in running
  /\ Cardinality(Free(St)) >= 2
  /\ \E error, thr \in BOOLEAN :
       /\ CommitQueue(OnCommandExit(St, error, thr), 0, 0)
       /\ output' = [fn |-> "exec callback", command |-> c, error |-> error]
  /\ running' = running \ {c}
  /\ UNCHANGED <<input, config, executable, cacheVars, editorVars>>

NextCommands ==
  /\ \/ \E c \in Commands : RunCommand(c)
     \/ \E c \in Commands : CommandExit(c)
     \/ \E t \in DiagTasks : DoExecCallbackFrom(t, DiagOuts(tk[t].kind))
     \/ KickResume
  /\ SpawnsSucceed'

\* The mutation commands, on Pks with the diagnostic collections.
SpecCommands == InitDiag /\ [][NextCommands]_vars

\* ------------------------------------------------ the constant definitions
\* The lines of the output of 'pks list-definitions': a definition line
\* '"<name>" is defined at "<path>"' with a name that begins with "::" or
\* does not, and a line of other text.
Lines ==
  [name : Names \cup {NameB}, path : {"a.rb", "b.rb"}] \cup {[name |-> << >>, path |-> "none"]}

Stdouts == SeqsUpTo(Lines, MaxLines)

RECURSIVE Fill(_, _)
\* The loop over the lines (constantDefinitionCache.ts:60-69): a line that
\* matches /^"(::[\w:]+)" is defined at "([^"]+)"$/ sets the entry of its name.
Fill(c, lines) ==
  IF lines = << >> THEN c
  ELSE LET line == Head(lines)
           match == Len(line.name) > 2 /\ line.name[1] = ":" /\ line.name[2] = ":"
       IN Fill(IF match THEN [c EXCEPT ![line.name] = line.path] ELSE c, Tail(lines))

\* The callback with this.cache.clear() before the test of error.
OnListedClearFirst(c, error, stdout) ==
  IF error THEN NoEntries ELSE Fill(NoEntries, stdout)

\* The callback without this.cache.clear().
OnListedNoClear(c, error, stdout) ==
  IF error THEN c ELSE Fill(c, stdout)

\* What the callback of exec in refresh leaves in the cache
\* (constantDefinitionCache.ts:48-72).
OnListed(c, error, stdout) ==
  IF error THEN c ELSE Fill(NoEntries, stdout)

\* The extension host is restarted when the first workspace folder changes,
\* so that rootPath is the same in every call of one activation.
InitCache == Standby /\ rootPath \in BOOLEAN /\ input = << >> /\ output = NoCall

\* refresh that starts a process also while a load is in progress.
RefreshStartsAlways(root, loading) == root

\* Whether refresh goes on to exec (constantDefinitionCache.ts:30-41).
RefreshStarts(root, loading) == root /\ ~loading

\* The promise that refresh returns, as the call leaves it
\* (constantDefinitionCache.ts:31-41): rejected without a workspace folder,
\* resolved when a load is in progress, else pending on the process.
\*   loaded: history: a load has replaced the cache since the call.
RefreshPromise(root, loading) ==
  [state |-> IF ~root THEN "rejected" ELSE IF loading THEN "resolved" ELSE "pending",
   loaded |-> FALSE]

\* ConstantDefinitionCache.refresh (constantDefinitionCache.ts:28-47); at
\* most MaxRefreshes calls are made.
Refresh ==
  /\ Len(refreshes) < MaxRefreshes
  /\ isLoading' = (isLoading \/ RefreshStarts(rootPath, isLoading))
  /\ listing' = (IF RefreshStarts(rootPath, isLoading) THEN listing + 1 ELSE listing)
  /\ refreshes' = Append(refreshes, RefreshPromise(rootPath, isLoading))
  /\ output' = [fn |-> "refresh", skipped |-> isLoading]
  /\ UNCHANGED <<queueVars, input, config, executable, running, cache, editorVars>>

\* The process exits and exec calls the callback of refresh.
ListDefinitionsExit ==
  /\ listing > 0
  /\ \E error \in BOOLEAN, stdout \in Stdouts :
       /\ cache' = OnListed(cache, error, stdout)
       /\ output' = [fn |-> "list-definitions callback", error |-> error,
                      stdout |-> stdout, before |-> cache]
       /\ \E p \in {i \in 1..Len(refreshes) : refreshes[i].state = "pending"} :
            refreshes' = [i \in 1..Len(refreshes) |->
                            [state |-> IF i # p THEN refreshes[i].state
                                       ELSE IF error THEN "rejected" ELSE "resolved",
                             loaded |-> refreshes[i].loaded \/ ~error]]
  /\ isLoading' = FALSE
  /\ listing' = listing - 1
  /\ UNCHANGED <<queueVars, input, config, executable, running, editorVars>>

\* ConstantDefinitionCache.getDefinitionPath (constantDefinitionCache.ts:18-22).
GetDefinitionPath(constantName) ==
  /\ LET startsWith == Len(constantName) >= 2 /\ constantName[1] = ":" /\ constantName[2] = ":"
         normalized == IF startsWith THEN constantName ELSE <<":", ":">> \o constantName
     IN output' = [fn |-> "getDefinitionPath", constantName |-> constantName,
                   ret |-> cache[normalized]]
  /\ UNCHANGED <<queueVars, input, config, executable, running, cacheVars, editorVars>>

NextCache ==
  \/ Refresh
  \/ ListDefinitionsExit
  \/ \E n \in Names \cup {NameB} : GetDefinitionPath(n)

\* The cache of constant definitions, its refreshes and its lookups.
SpecCache == InitCache /\ [][NextCache]_vars

\* ------------------------------------------------ the header of a file
\* The lines of a ruby file by what their trimmed text is: a line that
\* starts with '# typed:', one that starts with '# frozen_string_literal:',
\* an empty one, the line '# pack_public: true', another comment, and code.
\* A document has at least one line.
FileLines ==
  SeqsUpTo({"typed", "frozen", "blank", "sigil", "comment", "code"}, MaxFileLines) \ {<< >>}

RECURSIVE Scan(_, _, _)
\* The loop of findSigilInsertionLine from line i on, lines counted from 1
\* (fileHeaderUtils.ts:8-19).
Scan(lines, i, insertLine) ==
  IF i > Len(lines) THEN insertLine
  ELSE IF lines[i] \in {"typed", "frozen"} THEN Scan(lines, i + 1, i)
  ELSE IF insertLine > 0 THEN insertLine
  ELSE Scan(lines, i + 1, insertLine)

RECURSIVE ScanNoBreak(_, _, _)
ScanNoBreak(lines, i, insertLine) ==
  IF i > Len(lines) THEN insertLine
  ELSE ScanNoBreak(lines, i + 1, IF lines[i] \in {"typed", "frozen"} THEN i ELSE insertLine)

\* The loop that does not stop at the end of the first run of headers.
FindSigilInsertionLineNoBreak(lines) == ScanNoBreak(lines, 1, 0)

\* findSigilInsertionLine (fileHeaderUtils.ts:5-22).
FindSigilInsertionLine(lines) == Scan(lines, 1, 0)

\* The lines of the defining file after ruby.pks.makePublic has applied its
\* edit (extension.ts:225-256).  With the sigil present there is no edit.
\* A blank line at the insertion line has its text replaced; otherwise
\* '# pack_public: true\n\n' is inserted at the start of the insertion
\* line, or, when the headers are the last lines, at the end of the last
\* line, where the editor puts a position after the document.
MakePublic(lines) ==
  LET insertLine == FindSigilInsertionLine(lines)
      isBlankLine == insertLine < Len(lines) /\ lines[insertLine + 1] = "blank"
  IN IF \E i \in 1..Len(lines) : lines[i] = "sigil" THEN lines
     ELSE IF isBlankLine THEN [lines EXCEPT ![insertLine + 1] = "sigil"]
     ELSE IF insertLine = Len(lines) THEN lines \o <<"blank", "blank">>
     ELSE SubSeq(lines, 1, insertLine) \o <<"sigil", "blank">>
            \o SubSeq(lines, insertLine + 1, Len(lines))

InitFile == Standby /\ rootPath = TRUE /\ input \in FileLines /\ output = NoCall

CallFindSigilInsertionLine ==
  /\ output = NoCall
  /\ output' = [fn |-> "findSigilInsertionLine", ret |-> FindSigilInsertionLine(input)]
  /\ UNCHANGED <<queueVars, restVars>>

CallMakePublic ==
  /\ output = NoCall
  /\ output' = [fn |-> "makePublic", ret |-> MakePublic(input)]
  /\ UNCHANGED <<queueVars, restVars>>

\* findSigilInsertionLine and the edit of makePublic on every file of up
\* to MaxFileLines lines.
SpecFile == InitFile /\ [][CallFindSigilInsertionLine \/ CallMakePublic]_vars

\* ------------------------------------------------ the code actions
\* The diagnostics an editor can hand to provideCodeActions: the source is
\* the one the provider looks for or another one; the message names a
\* privacy violation or not and a dependency violation or not; the names of
\* the two packs can be read from the message and the path or not.  The
\* diagnostics of one context are different objects: their ranges differ.
Diagnostics ==
  [range : 1..MaxDiagnostics, source : {"packwerk", "pks", "rubocop"},
   privacy : BOOLEAN, dependency : BOOLEAN, packs : BOOLEAN]

Contexts ==
  {ds \in SeqsUpTo(Diagnostics, MaxDiagnostics) : \A i \in 1..Len(ds) : ds[i].range = i}

\* A vscode.CodeAction with action.diagnostics = [diagnostic].
Action(title, diagnostic) == [title |-> title, diagnostics |-> <<diagnostic>>]

\* The body of the loop without the 'Run pks update' action for a privacy
\* violation.
ActionsForUpdateElse(diagnostic) ==
  (IF diagnostic.privacy
     THEN <<Action("Make constant public with # pack_public: true", diagnostic)>> ELSE << >>)
  \o (IF diagnostic.dependency /\ diagnostic.packs
        THEN <<Action("Add dependency", diagnostic)>> ELSE << >>)
  \o (IF diagnostic.privacy THEN << >> ELSE <<Action("Run pks update", diagnostic)>>)

\* The body of the loop for a diagnostic of the checker
\* (codeActionProvider.ts:20-36).
ActionsFor(diagnostic) ==
  (IF diagnostic.privacy
     THEN <<Action("Make constant public with # pack_public: true", diagnostic)>> ELSE << >>)
  \o (IF diagnostic.dependency /\ diagnostic.packs
        THEN <<Action("Add dependency", diagnostic)>> ELSE << >>)
  \o <<Action("Run pks update", diagnostic)>>

RECURSIVE ProvideCodeActionsNoFilter(_)
\* The provider without the test of the source.
ProvideCodeActionsNoFilter(diagnostics) ==
  IF diagnostics = << >> THEN << >>
  ELSE ActionsFor(Head(diagnostics)) \o ProvideCodeActionsNoFilter(Tail(diagnostics))

RECURSIVE ProvideCodeActions(_)
\* PackwerkCodeActionProvider.provideCodeActions on context.diagnostics
\* (codeActionProvider.ts:6-44).
ProvideCodeActions(diagnostics) ==
  IF diagnostics = << >> THEN << >>
  ELSE (IF Head(diagnostics).source # "packwerk" THEN << >> ELSE ActionsFor(Head(diagnostics)))
         \o ProvideCodeActions(Tail(diagnostics))

InitActions == Standby /\ rootPath = TRUE /\ input \in Contexts /\ output = NoCall

CallProvideCodeActions ==
  /\ output = NoCall
  /\ output' = [fn |-> "provideCodeActions", ret |-> ProvideCodeActions(input)]
  /\ UNCHANGED <<queueVars, restVars>>

\* The editor asks for the code actions of a context.
SpecActions == InitActions /\ [][CallProvideCodeActions]_vars

TypeOK ==
  /\ busy \in BOOLEAN
  /\ awaited \in {0} \cup DOMAIN tk
  /\ threw \in {0} \cup DOMAIN tk
  /\ \A i \in 1..Len(tasks) : tasks[i] \in DOMAIN tk
  /\ DOMAIN diag = Uris /\ DOMAIN validateDiag = Uris /\ DOMAIN highlightDiag = Uris

\* ------------------------------------------------ the executable
\* The settings of 'ruby.pks.executable' looked at: the default and one
\* without the word 'check'.
Executables == {DefaultExecutable, <<"bin/pks">>}

\* The runs of Pks for the document of Docs and the workspace while the
\* settings change; at most MaxLiveTasks tasks are created.
SpecConfig ==
  InitPks /\ [][/\ \/ \E doc \in Docs : Execute(doc)
                   \/ \E doc \in Docs : ExecuteHighlights(doc)
                   \/ ExecuteAll
                   \/ \E read \in Configs(Executables) : DidChangeConfiguration(read)
                   \/ \E t \in Tasks : DoExecCallbackFrom(t, {Json(EmptyResult)})
                   \/ KickResume
                /\ Len(enq') <= MaxLiveTasks]_vars

\* ------------------------------------------------ closing a document
\* Pks with the collections, and the tasks that a clear() met marked.
InitClear ==
  /\ tk = [t \in Tasks |-> NoTask]
  /\ tasks = << >>
  /\ busy = FALSE
  /\ awaited = 0
  /\ enq = << >>
  /\ started = << >>
  /\ threw = 0
  /\ owner = "Pks"
  /\ canceledUri = 0
  /\ diag = NoDiagnostics
  /\ validateDiag = NoDiagnostics
  /\ highlightDiag = NoDiagnostics
  /\ lastExec = NoExec
  /\ scope = "clear"
  /\ InitExt

\* The outputs a run can end with here: those of DiagOuts, no output at
\* all and, for a validate run too, text that is not JSON.
EndOuts(k) ==
  DiagOuts(k) \cup {Output("none", "empty", EmptyResult, << >>),
                    Output("none", "malformed", EmptyResult, << >>)}

\* The document of Docs is checked, highlighted and closed while
\* whole-workspace runs go on.
SpecClear ==
  InitClear /\ [][/\ \/ \E doc \in Docs : Execute(doc)
                     \/ \E doc \in Docs : ExecuteHighlights(doc)
                     \/ ExecuteAll
                     \/ \E doc \in Docs : Clear(doc)
                     \/ \E t \in Tasks : DoExecCallbackFrom(t, EndOuts(tk[t].kind))
                     \/ KickResume
                  /\ SpawnsSucceed']_vars

\* ------------------------------------------------ the highlights
\* The active text editor: one that shows a document of Docs, or none (0).
Editors == Docs \cup {0}

\* applyHighlightsToEditor (extension.ts:139-144): a highlight run for the
\* editor's document, whose onResults callback is OnResults.
ApplyHighlightsToEditor(S, editor, thr) == CreateAndEnqueue(S, editor, "highlight", thr)

\* The handler of 'ruby.pks.toggleHighlightViolations' after the flag was
\* inverted to `enabled` (extension.ts:160-184): highlights for the active
\* editor when switched on, highlightDiag.clear() when switched off.
OnToggleHighlightViolations(S, enabled, editor, thr) ==
  IF enabled
  THEN IF editor # 0 THEN ApplyHighlightsToEditor(S, editor, thr) ELSE S
  ELSE [S EXCEPT !.highlightDiag = NoDiagnostics]

\* The command 'ruby.pks.toggleHighlightViolations' is run while `editor`
\* is the active editor (extension.ts:157-185).
ToggleHighlightViolations(editor) ==
  /\ ~MicrotaskDue
  /\ (~highlightsEnabled /\ editor # 0) => Free(St) # {}
  /\ \E thr \in BOOLEAN :
       CommitQueue(OnToggleHighlightViolations(St, ~highlightsEnabled, editor, thr), 0, 0)
  /\ highlightsEnabled' = ~highlightsEnabled
  /\ output' = [fn |-> "toggleHighlightViolations", editor |-> editor]
  /\ UNCHANGED <<input, config, executable, running, cacheVars, rootPath>>

\* The listener of onDidChangeActiveTextEditor, registered while the
\* highlights are enabled and disposed when they are switched off
\* (extension.ts:168-172, 180-183).
DidChangeActiveTextEditor(editor) ==
  /\ ~MicrotaskDue
  /\ highlightsEnabled
  /\ editor # 0 => Free(St) # {}
  /\ \E thr \in BOOLEAN :
       CommitQueue(IF editor # 0 THEN ApplyHighlightsToEditor(St, editor, thr) ELSE St, 0, 0)
  /\ output' = [fn |-> "onDidChangeActiveTextEditor", editor |-> editor]
  /\ UNCHANGED restVars

\* The highlight command and the editor changes, with the highlight runs
\* they enqueue on the queue of Pks.
SpecHighlights ==
  InitDiag /\ [][/\ \/ \E editor \in Editors : ToggleHighlightViolations(editor)
                    \/ \E editor \in Editors : DidChangeActiveTextEditor(editor)
                    \/ \E t \in DiagTasks : DoExecCallbackFrom(t, DiagOuts(tk[t].kind))
                    \/ KickResume
                 /\ SpawnsSucceed']_vars

\* ------------------------------------------------------------ vocabulary
InQueue(t) == \E i \in 1..Len(tasks) : tasks[i] = t
Pos(seq, t) == CHOOSE i \in 1..Len(seq) : seq[i] = t
Has(seq, t) == \E i \in 1..Len(seq) : seq[i] = t
EnqueuedBefore(a, b) == Has(enq, a) /\ Has(enq, b) /\ Pos(enq, a) < Pos(enq, b)
StartedBefore(a, b) == Has(started, a) /\ Has(started, b) /\ Pos(started, a) < Pos(started, b)
Pending(t) == tk[t].promise = "pending"
Left(t) == tk[t].isEnqueued /\ ~InQueue(t)

RECURSIVE SumOver(_, _)
SumOver(f, D) == IF D = {} THEN 0 ELSE LET x == CHOOSE x \in D : TRUE IN f[x] + SumOver(f, D \ {x})

\* The number of body invocations whose run-promise is still unsettled.
ConcurrentCount == SumOver([t \in Tasks |-> IF Pending(t) THEN tk[t].bodyCalls ELSE 0], Tasks)

\* ------------------------------------------------------------------ C1
\* C1: in every reachable state at most one body invocation has its
\* run-promise unsettled, whatever the interleaving of enqueue, cancel and
\* completion.
C1_OneBodyAtATime == ConcurrentCount <= 1

\* A body is executing while another task waits behind it and a third has
\* already completed.
C1_Witness ==
  /\ ConcurrentCount = 1
  /\ \E t \in Tasks : InQueue(t) /\ tk[t].promise = "none"
  /\ \E t \in Tasks : Left(t) /\ tk[t].bodyCalls = 1

\* ------------------------------------------------------------------ C2
\* C2: for each identity at most one task in the queue is not canceled.
C2_SingleFlight ==
  \A u \in Uris :
    Cardinality({i \in 1..Len(tasks) : tk[tasks[i]].uri = u /\ ~tk[tasks[i]].isCanceled}) <= 1

\* Behind a running task of another identity two tasks of one identity wait,
\* the earlier one canceled by the enqueue of the later one.
C2_Witness ==
  /\ Len(tasks) = 3
  /\ tk[tasks[1]].uri # tk[tasks[2]].uri /\ Pending(tasks[1])
  /\ tk[tasks[2]].uri = tk[tasks[3]].uri
  /\ tk[tasks[2]].isCanceled /\ ~tk[tasks[3]].isCanceled

\* ------------------------------------------------------------------ C3
\* C3 as stated: of the tasks enqueued for one identity only the last one
\* completes normally, and every earlier one is canceled by the time its
\* run-promise has settled.
C3_OnlyLastCompletes ==
  \A a, b \in Tasks :
    (EnqueuedBefore(a, b) /\ tk[a].uri = tk[b].uri) =>
      /\ ~tk[a].normal
      /\ Settled(tk[a].promise) => tk[a].isCanceled

LastOfIdentity(seq, t) ==
  /\ Has(seq, t)
  /\ \A i \in 1..Len(seq) : tk[seq[i]].uri = tk[t].uri => i <= Pos(seq, t)

\* A step of the queue: only the last task enqueued for its identity can
\* complete normally; a canceled task stays canceled and does not complete
\* normally afterwards; an accepted enqueue cancels every task of the new
\* task's identity that is in the queue and changes no task that has left it.
C3_Step ==
  /\ \A t \in Tasks : (tk'[t].normal /\ ~tk[t].normal) => LastOfIdentity(enq', t)
  /\ \A t \in Tasks : tk[t].isCanceled => tk'[t].isCanceled /\ (tk'[t].normal = tk[t].normal)
  /\ enq' # enq =>
       /\ \A i \in 1..Len(tasks) :
            tk[tasks[i]].uri = tk[enq'[Len(enq')]].uri => tk'[tasks[i]].isCanceled
       /\ \A t \in Tasks : Left(t) => tk'[t] = tk[t]

\* C3 amended: an enqueue cancels every task of the same identity that is
\* still in the queue and leaves the tasks that have left the queue as they
\* are; a task completes normally only while it is the last task enqueued for
\* its identity.
C3_Superseded == [][C3_Step]_vars

\* A superseded task's work has reported completion after the cancel, and the
\* task that superseded it has completed normally.
C3_Witness ==
  \E a, b \in Tasks :
    /\ EnqueuedBefore(a, b) /\ tk[a].uri = tk[b].uri
    /\ tk[a].isCanceled /\ tk[a].finished /\ ~tk[a].normal /\ tk[a].bodyCalls = 1
    /\ tk[b].normal

\* ------------------------------------------------------------------ C4
\* C4: bodies are invoked in enqueue order, and a body is invoked only after
\* the run-promise of every task enqueued earlier whose body was invoked has settled.
C4_Fifo ==
  \A a, b \in Tasks :
    (EnqueuedBefore(a, b) /\ tk[a].bodyCalls > 0 /\ tk[b].bodyCalls > 0) =>
      /\ StartedBefore(a, b)
      /\ Settled(tk[a].promise)

\* All three bodies have been invoked.
C4_Witness == Len(started) = 3 /\ \A t \in 1..3 : tk[t].bodyCalls = 1

\* ------------------------------------------------------------------ C6
\* A non-stuttering step taken while kick is suspended on a rejected promise:
\* the head is removed, and kick either has run() of the next task or is idle.
C6_Step ==
  (awaited # 0 /\ tk[awaited].promise = "rejected") =>
    /\ tasks' = Tail(tasks)
    /\ tasks' = << >> => (~busy' /\ awaited' = 0)
    /\ tasks' # << >> => (busy' /\ awaited' = Head(tasks') /\ tk'[awaited'].promise # "none")

\* C6: when run() of the head rejects because the body threw, the loop removes
\* that task and runs the next one; busy is true only while kick is suspended
\* on run() of the task at the head.
C6_ThrowDoesNotStall ==
  /\ [](busy => (tasks # << >> /\ awaited = Head(tasks) /\ tk[awaited].promise # "none"))
  /\ [][C6_Step]_vars

\* A task whose body threw has left the queue and the task enqueued after it
\* is running.
C6_Witness ==
  \E a \in Tasks :
    /\ tk[a].promise = "rejected" /\ Left(a)
    /\ tasks # << >> /\ Pending(Head(tasks)) /\ EnqueuedBefore(a, Head(tasks))

\* ------------------------------------------------------------------ C8
C8_Step ==
  \A t \in Tasks :
    (tk[t].isCanceled /\ tk[t].bodyCalls = 0) =>
      /\ tk'[t].bodyCalls = 0
      /\ (tk[t].promise = "none" /\ tk'[t].promise # "none") => tk'[t].promise = "resolved"

\* C8: a task canceled before run() is never given to its body: run() returns a
\* resolved promise, no process is started and the cancel-callback is never called.
C8_CanceledBeforeRun ==
  /\ [](\A t \in Tasks :
          tk[t].bodyCalls = 0 =>
            (tk[t].onCancelCalls = 0 /\ tk[t].proc = "none" /\ tk[t].promise \in {"none", "resolved"}))
  /\ [][C8_Step]_vars

\* A task that was canceled while it waited has been run and removed, and its
\* body was not invoked.
C8_Witness ==
  \E t \in Tasks :
    tk[t].isCanceled /\ Left(t) /\ tk[t].promise = "resolved" /\ tk[t].bodyCalls = 0

\* ------------------------------------------------------------------ C9
C9_Step ==
  \A t \in Tasks :
    /\ Settled(tk[t].promise) => tk'[t].promise = tk[t].promise
    /\ (Pending(t) /\ ((tk'[t].finished /\ ~tk[t].finished) \/ (tk'[t].isCanceled /\ ~tk[t].isCanceled)))
         => tk'[t].promise = "resolved"

\* C9: the first token.finished() or cancel() settles a pending run-promise, a
\* settled promise never changes, the resolve function and the cancel-callback
\* are called at most once, the cancel-callback only after the body was invoked.
C9_SettlesOnce ==
  /\ [](\A t \in Tasks :
          /\ tk[t].resolveCalls <= 1
          /\ tk[t].onCancelCalls <= 1
          /\ tk[t].onCancelCalls = 1 => tk[t].bodyCalls >= 1)
  /\ [][C9_Step]_vars

\* A task completed normally through token.finished() and was canceled afterwards.
C9_Witness ==
  \E t \in Tasks :
    /\ tk[t].finished /\ tk[t].normal /\ tk[t].isCanceled
    /\ tk[t].resolveCalls = 1 /\ tk[t].onCancelCalls = 1

\* ----------------------------------------------------------------- C10
NoDup(seq) == \A i, j \in 1..Len(seq) : seq[i] = seq[j] => i = j

C10_Step ==
  threw' # 0 =>
    /\ tk[threw'].isEnqueued
    /\ tk' = tk /\ tasks' = tasks /\ busy' = busy /\ awaited' = awaited /\ enq' = enq

\* C10: no task is accepted by enqueue twice, and an enqueue that throws
\* changes neither the queue, nor busy, nor any task.
C10_EnqueueTwiceFails ==
  /\ [](NoDup(enq) /\ NoDup(tasks) /\ \A t \in Tasks : tk[t].isEnqueued <=> Has(enq, t))
  /\ [][C10_Step]_vars

\* enqueue threw for a task that had completed and left the queue, while a
\* live task of the same identity was in the queue.
C10_Witness ==
  /\ threw # 0
  /\ Left(threw)
  /\ \E i \in 1..Len(tasks) : tk[tasks[i]].uri = tk[threw].uri /\ ~tk[tasks[i]].isCanceled

\* ------------------------------------------------------------------ C5
\* C5: on the queue of Pks, with every process delivering its callback, every
\* enqueued task is eventually removed and a busy queue eventually becomes idle.
C5_QueueProgress ==
  /\ \A t \in Tasks : (tk[t].isEnqueued ~> Left(t))
  /\ (busy ~> ~busy)

\* The queue is idle again after one task was canceled while its process ran
\* and the next one failed (handling threw, no output, or output not JSON).
C5_Witness ==
  /\ ~busy /\ tasks = << >>
  /\ \E t \in Tasks : tk[t].cb = "canceled"
  /\ \E t \in Tasks : tk[t].cb \in {"threw", "noOutput", "parseFailed"}

\* ------------------------------------------------------------------ C7
\* C7: once the completion callback of a task body has run, token.finished()
\* has been called, for every body of the repository.
C7_FinishedOnEveryPath ==
  \A t \in Tasks : tk[t].cb # "none" => tk[t].finished

\* ----------------------------------------------------------------- C11
\* The tasks of identity u that are in the queue.
Matching(u) == {i \in 1..Len(tasks) : tk[tasks[i]].uri = u}

C11_Step ==
  (canceledUri' # 0 /\ Matching(canceledUri') = {}) =>
    /\ threw' = 0
    /\ tk' = tk /\ tasks' = tasks /\ busy' = busy /\ awaited' = awaited

\* C11: a call of TaskQueue.cancel with an identity that no task in the queue
\* has does not throw and changes neither the queue, nor busy, nor any task.
C11_CancelNoMatch == [][C11_Step]_vars

\* cancel was called with an identity that no task in the queue has, while a
\* task of another identity runs and a task of the identity itself has left
\* the queue without being canceled.
C11_Witness ==
  /\ canceledUri # 0 /\ Matching(canceledUri) = {}
  /\ Len(tasks) = 1 /\ Pending(tasks[1]) /\ ~tk[tasks[1]].isCanceled
  /\ \E t \in Tasks : Left(t) /\ tk[t].uri = canceledUri /\ ~tk[t].isCanceled

\* ----------------------------------------------------------------- C12
C12_Step ==
  /\ canceledUri' # 0 =>
       /\ tasks' = tasks
       /\ \A i \in 1..Len(tasks) :
            IF tk[tasks[i]].uri = canceledUri'
              THEN tk'[tasks[i]].isCanceled
              ELSE tk'[tasks[i]] = tk[tasks[i]]
       /\ \A t \in Tasks : ~InQueue(t) => tk'[t] = tk[t]
  /\ tasks' # tasks =>
       \/ \E t \in Tasks : ~InQueue(t) /\ tasks' = Append(tasks, t)
       \/ tasks' = Tail(tasks) /\ awaited = Head(tasks)

\* C12: TaskQueue.cancel marks every task of the identity that is in the
\* queue, run or not, as canceled, leaves the queue as it is and changes no
\* task of another identity; a task leaves the queue only from the head, in
\* the continuation of the loop that awaited it.
C12_CancelMarksOnly == [][C12_Step]_vars

\* cancel was called for the identity of the running head: the head is
\* canceled, its process killed, and it is still in the queue; the task of
\* another identity behind it is not canceled.
C12_Witness ==
  /\ canceledUri # 0 /\ Len(tasks) = 2
  /\ tk[tasks[1]].uri = canceledUri /\ tk[tasks[1]].proc = "killed" /\ awaited = tasks[1]
  /\ tk[tasks[2]].uri # canceledUri /\ ~tk[tasks[2]].isCanceled

\* ----------------------------------------------------------------- C13
C13_Step ==
  Len(tasks') < Len(tasks) =>
    /\ tasks' = Tail(tasks)
    /\ awaited = Head(tasks)
    /\ Settled(tk[awaited].promise)

\* C13: the queue gets shorter only by losing its head, only when the
\* run-promise of the head has settled, and the head is the task kick is
\* suspended on, whatever was enqueued during the await.
C13_ShrinkAtHead ==
  /\ [](awaited # 0 => (tasks # << >> /\ awaited = Head(tasks)))
  /\ [][C13_Step]_vars

\* The first task was canceled while its process ran and has been removed;
\* the two tasks enqueued behind it are in the queue, in their order.
C13_Witness ==
  /\ Len(enq) = 3 /\ tasks = SubSeq(enq, 2, 3)
  /\ tk[enq[1]].proc = "killed" /\ ~tk[enq[1]].finished
  /\ awaited = enq[2]

\* ----------------------------------------------------------------- C14
\* The completion callback just ran (lastExec' says for which task).
C14_Step ==
  (lastExec'.task # 0 /\ lastExec'.canceled) =>
    /\ diag' = diag /\ validateDiag' = validateDiag /\ highlightDiag' = highlightDiag
    /\ lastExec'.effects = {}

\* C14: the completion callback of a task that was canceled before the
\* callback runs changes no diagnostic collection, shows no warning and calls
\* neither onResults nor onComplete, whatever the kind of the task.
C14_CanceledCallbackSilent == [][C14_Step]_vars

\* The callback of a canceled whole-workspace run was given a result with
\* violations while the collection was empty, and the collection is empty.
C14_Witness ==
  /\ lastExec.task # 0 /\ lastExec.canceled /\ lastExec.kind = "all"
  /\ lastExec.out.kind = "json" /\ lastExec.out.res.violations # << >>
  /\ diag = NoDiagnostics

\* ----------------------------------------------------------------- C15
\* The located violations of a result that are in file f.
LocatedIn(R, f) ==
  SelectSeq(R.violations \o R.stale_violations \o R.strict_mode_violations,
            LAMBDA v : v.line.t = "number" /\ v.column.t = "number" /\ v.file = f)

C15_Step ==
  (lastExec'.task # 0 /\ lastExec'.kind = "all" /\ ~lastExec'.canceled /\ lastExec'.out.kind = "json") =>
    \A f \in Uris :
      /\ Len(diag'[f]) = Len(LocatedIn(lastExec'.out.res, f))
      /\ \A i \in 1..Len(diag'[f]) : diag'[f][i] = CreateDiagnostic(LocatedIn(lastExec'.out.res, f)[i])

\* C15: when the callback of a whole-workspace check that was not canceled is
\* given output that parses, the diagnostic collection afterwards holds, for
\* every file, the diagnostics of the located violations this output has for
\* the file, and nothing that was there before.
C15_WholeRunReplaces == [][C15_Step]_vars

\* A whole-workspace run that reports no violation has completed and left the
\* collection empty; the first file had a diagnostic before, and the process
\* of the run that the enqueue of this one canceled has not exited yet.
C15_Witness ==
  /\ lastExec.task # 0 /\ lastExec.kind = "all" /\ ~lastExec.canceled
  /\ lastExec.out = Json(EmptyResult)
  /\ lastExec.diagBefore[1] # << >> /\ diag = NoDiagnostics
  /\ \E t \in DOMAIN tk : tk[t].kind = "all" /\ tk[t].isCanceled /\ tk[t].proc = "killed"

\* ----------------------------------------------------------------- C16
C16_Step ==
  (lastExec'.task # 0 /\ lastExec'.kind = "execute") =>
    \A f \in Uris \ {lastExec'.uri} : diag'[f] = diag[f]

\* C16: the completion callback of a single-file check for file F leaves the
\* entry of every other file in the diagnostic collection as it was.
C16_SingleFileFrame == [][C16_Step]_vars

\* A single-file check of the first file was given a result that names two
\* files; both diagnostics are in the entry of the first file, and the entry
\* of the last file, set by a whole-workspace run, is as it was.
C16_Witness ==
  /\ lastExec.task # 0 /\ lastExec.kind = "execute" /\ ~lastExec.canceled /\ lastExec.uri = 1
  /\ Len(lastExec.out.res.violations) = 2
  /\ Len(diag[1]) = 2 /\ Len(diag[MaxUris]) = 1
  /\ diag[MaxUris] = lastExec.diagBefore[MaxUris]

\* ----------------------------------------------------------------- C17
\* The tasks whose process has been spawned and has not exited.
Unexited == {t \in DOMAIN tk : tk[t].proc \in {"running", "killed"}}

\* C17 as stated: at most one spawned process has not exited.
C17_OneProcess == Cardinality(Unexited) <= 1

\* C17 amended: at most one spawned process has neither exited nor been sent
\* the kill signal, and it is the process of the task that kick awaits; every
\* other process that has not exited was killed by the cancel of its task.
C17_OneLiveProcess ==
  /\ Cardinality({t \in DOMAIN tk : tk[t].proc = "running"}) <= 1
  /\ \A t \in DOMAIN tk : tk[t].proc = "running" => (awaited = t /\ ~tk[t].isCanceled)
  /\ \A t \in DOMAIN tk : tk[t].proc = "killed" => (tk[t].isCanceled /\ tk[t].onCancelCalls = 1)

\* The process of a canceled task was killed and has not exited, and the
\* process of the next task is running.
C17_Witness ==
  \E a, b \in DOMAIN tk : tk[a].proc = "killed" /\ Left(a) /\ tk[b].proc = "running"

\* ----------------------------------------------------------------- C18
\* The callback of a check that was not canceled just ran on a result.
Reconciled ==
  /\ lastExec.task # 0 /\ ~lastExec.canceled
  /\ lastExec.kind \in {"execute", "all", "highlight"} /\ lastExec.out.kind = "json"

\* The files whose entry the run sets, the collection it sets them in, and
\* the part of a list of violations that belongs in the entry of file f.
Targets == IF lastExec.kind = "all" THEN Uris ELSE {lastExec.uri}
Produced(f) == IF lastExec.kind = "highlight" THEN highlightDiag[f] ELSE diag[f]
Share(vs, f) == IF lastExec.kind = "all" THEN SelectSeq(vs, LAMBDA v : v.file = f) ELSE vs

Merged(R) == R.violations \o R.stale_violations \o R.strict_mode_violations
WithLocation(vs) == SelectSeq(vs, LAMBDA v : v.line.t = "number" /\ v.column.t = "number")

\* The diagnostics ds are those of the violations vs, one for one and in
\* order, going by the violation each diagnostic carries.
MadeFrom(ds, vs) ==
  /\ Len(ds) = Len(vs)
  /\ \A i \in 1..Len(ds) :
       /\ ds[i].meta.file = vs[i].file
       /\ ds[i].meta.constant_name = vs[i].constant_name
       /\ ds[i].meta.violation_type = vs[i].violation_type
       /\ ds[i].line = Minus1(vs[i].line)

C19_UnlocatedDropped ==
  (Reconciled /\ \E i \in 1..Len(Merged(lastExec.out.res)) :
                    \/ Merged(lastExec.out.res)[i].line.t # "number"
                    \/ Merged(lastExec.out.res)[i].column.t # "number") =>
    /\ "onComplete" \in lastExec.effects /\ "warning" \notin lastExec.effects
    /\ \A f \in Targets :
         /\ \A i \in 1..Len(Produced(f)) :
              Produced(f)[i].line.t = "number" /\ Produced(f)[i].startCol.t = "number"
         /\ Len(Produced(f)) = Len(Share(WithLocation(Merged(lastExec.out.res)), f))
         /\ \A i \in 1..Len(Produced(f)) :
              LET v == Share(WithLocation(Merged(lastExec.out.res)), f)[i]
              IN /\ Produced(f)[i].line = Num(v.line.v - 1)
                 /\ Produced(f)[i].startCol = v.column
                 /\ Produced(f)[i].meta.constant_name = v.constant_name

\* A single-file check was given a result whose first violation has no line
\* and whose second is located: the file has the diagnostic of the second.
C19_Witness ==
  /\ Reconciled /\ lastExec.kind = "execute"
  /\ Len(lastExec.out.res.violations) = 2
  /\ lastExec.out.res.violations[1].line.t = "undefined"
  /\ Len(diag[lastExec.uri]) = 1
  /\ diag[lastExec.uri][1].meta.constant_name = lastExec.out.res.violations[2].constant_name

\* ----------------------------------------------------------------- C20
\* The diagnostic d is the one of the located violation v, its range ending
\* len characters after its start.
DiagnosticOf(d, v, len) ==
  /\ d.line = Num(v.line.v - 1)
  /\ d.startCol = Num(v.column.v)
  /\ d.endCol = Num(v.column.v + len)
  /\ d.source = "pks"
  /\ d.hasMeta
  /\ d.meta.violation_type = v.violation_type
  /\ d.meta.constant_name = v.constant_name
  /\ d.meta.referencing_pack_name = v.referencing_pack_name
  /\ d.meta.defining_pack_name = v.defining_pack_name

\* The name without a leading "::".
ShortName(n) == IF Len(n) >= 2 /\ SubSeq(n, 1, 2) = <<":", ":">> THEN SubSeq(n, 3, Len(n)) ELSE n

\* C20 as stated: in every mode each located violation has exactly one
\* diagnostic, on line L-1 from column C to column C + len(N), with source
\* 'pks' and the four fields of the violation as metadata.
C20_RangeByName ==
  Reconciled =>
    \A f \in Targets :
      LET vs == Share(WithLocation(Merged(lastExec.out.res)), f)
      IN /\ Len(Produced(f)) = Len(vs)
         /\ \A i \in 1..Len(vs) : DiagnosticOf(Produced(f)[i], vs[i], Len(vs[i].constant_name.v))

\* C20 amended: each located violation has exactly one diagnostic, on line
\* L-1 from column C, with source 'pks' and the four fields as metadata; it
\* ends at column C + len(N) in a single-file or whole-workspace check, and
\* at column C + len(N without a leading "::") in a highlight run.
C20_RangeByMode ==
  Reconciled =>
    \A f \in Targets :
      LET vs == Share(WithLocation(Merged(lastExec.out.res)), f)
      IN /\ Len(Produced(f)) = Len(vs)
         /\ \A i \in 1..Len(vs) :
              DiagnosticOf(Produced(f)[i], vs[i],
                           IF lastExec.kind = "highlight" THEN Len(ShortName(vs[i].constant_name.v))
                                                          ELSE Len(vs[i].constant_name.v))

\* A highlight run was given a violation at line 5, column 10 whose name
\* begins with "::": its diagnostic is on line index 4 and ends before
\* column 10 + len(N).
C20_Witness ==
  /\ Reconciled /\ lastExec.kind = "highlight"
  /\ \E i \in 1..Len(highlightDiag[lastExec.uri]) :
       LET d == highlightDiag[lastExec.uri][i]
       IN /\ d.line = Num(4) /\ d.startCol = Num(10)
          /\ d.endCol.v < 10 + Len(d.meta.constant_name.v)

\* ----------------------------------------------------------------- C21
\* The text '{"status":"ok","violations":[]}'.
OkText == <<"{", "s", ",", "v", "}">>

C22_WarnOnlyMalformed ==
  output.fn = "parse" =>
    /\ input = << >> => "warning" \notin output.effects
    /\ (input # << >> /\ ~IsJson(input)) => "warning" \in output.effects

\* White space only was parsed and a warning shown.
C22_Witness ==
  /\ output.fn = "parse" /\ input = <<" ">>
  /\ "warning" \in output.effects

\* ------------------------------------------------------------------- C23
\* The step enqueued a new single-file check task for document e.
EnqueuedCheck(e) ==
  /\ Len(enq') = Len(enq) + 1
  /\ \A i \in 1..Len(enq) : enq'[i] = enq[i]
  /\ tk[enq'[Len(enq')]] = NoTask
  /\ tk'[enq'[Len(enq')]].kind = "execute"
  /\ tk'[enq'[Len(enq')]].uri = e.uri
  /\ tk'[enq'[Len(enq')]].isEnqueued
  /\ Has(tasks', enq'[Len(enq')])

SavedDocument == output'.fn = "onDidSaveTextDocument"

\* C23 as stated: when a document is saved, a single-file check task is
\* enqueued if and only if the onSave value of the most recently read
\* configuration is true.
C23_SaveStep ==
  SavedDocument => (EnqueuedCheck(output'.document) <=> config)

C23_EnqueuedIffOnSave == [][C23_SaveStep]_vars

\* What holds instead: the configuration held by Pks changes only in the
\* handler of the change notification, to the value read then, and a save
\* enqueues a single-file check task if and only if that value is true and
\* the document is a ruby or gemfile document that is not untitled and has
\* the scheme 'file'; otherwise the save enqueues nothing.
C23_Step ==
  /\ SavedDocument =>
       /\ EnqueuedCheck(output'.document) <=> (config /\ Checked(output'.document))
       /\ ~(config /\ Checked(output'.document)) => UNCHANGED <<enq, tasks, tk>>
  /\ output'.fn = "onDidChangeConfiguration" => config' = output'.onSave
  /\ output'.fn # "onDidChangeConfiguration" => config' = config

\* C23 (amended): a save enqueues a single-file check task if and only if
\* the last read onSave is true and the document is one that Pks.execute
\* checks; a change notification makes later saves use the value read.
C23_LastReadWins == [][C23_Step]_vars

\* A save of a ruby file under onSave = false has enqueued nothing, after a
\* save before the change notification enqueued a check that has finished.
C23_Witness ==
  /\ output.fn = "onDidSaveTextDocument"
  /\ Checked(output.document)
  /\ ~config
  /\ Len(enq) = 1
  /\ tasks = << >>

\* ------------------------------------------------------------------- C24
CommandExited == output'.fn = "exec callback"

\* The step enqueued a whole-workspace check (followed by its validate run).
EnqueuedAll ==
  /\ Len(tasks') = Len(tasks) + 2
  /\ \A i \in 1..Len(tasks) : tk'[tasks'[i]].kind = tk[tasks[i]].kind
  /\ tk'[tasks'[Len(tasks) + 1]].kind = "all"
  /\ tk'[tasks'[Len(tasks) + 1]].uri = AllUri
  /\ tk'[tasks'[Len(tasks) + 1]].isEnqueued
  /\ tk'[tasks'[Len(tasks) + 2]].kind = "validate"

C24_Step ==
  CommandExited =>
    /\ EnqueuedAll <=> ~output'.error
    /\ output'.error => UNCHANGED <<tasks, tk, diag, validateDiag, highlightDiag>>

\* C24: the callback of a mutation command enqueues a whole-workspace check
\* if and only if the command finished without error; when it failed nothing
\* is enqueued and the diagnostic collections are unchanged.
C24_CheckIffSuccess == [][C24_Step]_vars

\* A command has failed while diagnostics of an earlier check were shown
\* and nothing was queued.
C24_Witness ==
  /\ output.fn = "exec callback"
  /\ output.error
  /\ output.command = "todoAll"
  /\ diag # NoDiagnostics
  /\ tasks = << >>

\* ------------------------------------------------------------------- C25
\* The places of the definition lines for the name n in an output.
Defining(stdout, n) == {i \in 1..Len(stdout) : stdout[i].name = n}

\* The definitions parsed from an output: for each name the path of the
\* last line that defines it.
Parsed(stdout) ==
  [n \in Names |->
     IF Defining(stdout, n) = {} THEN "undefined"
     ELSE stdout[CHOOSE i \in Defining(stdout, n) : \A j \in Defining(stdout, n) : j <= i].path]

C25_Step ==
  /\ output'.fn = "list-definitions callback" /\ ~output'.error =>
       cache' = Parsed(output'.stdout)
  /\ ~(output'.fn = "list-definitions callback" /\ ~output'.error) => cache' = cache
  /\ output'.fn = "getDefinitionPath" /\ output'.constantName \in Names =>
       output'.ret = cache[output'.constantName]

\* C25: a successful refresh leaves exactly the definitions parsed from
\* that run's output in the cache, no other step changes the cache, and a
\* lookup returns the entry of the cache as the last such run left it.
C25_WholesaleReplace == [][C25_Step]_vars

\* A successful refresh has dropped an entry that the cache held before and
\* has taken the later of two lines for one name.
C25_Witness ==
  /\ output.fn = "list-definitions callback"
  /\ ~output.error
  /\ output.before[<<":", ":", "B", "c">>] = "a.rb"
  /\ output.stdout = <<[name |-> NameA, path |-> "a.rb"], [name |-> NameA, path |-> "b.rb"]>>
  /\ cache[NameA] = "b.rb"
  /\ cache[<<":", ":", "B", "c">>] = "undefined"

\* ------------------------------------------------------------------- C26
IsHeader(lines, i) == lines[i] \in {"typed", "frozen"}

\* The first header line of a file that has one.
FirstHeader(lines) ==
  CHOOSE i \in 1..Len(lines) : IsHeader(lines, i) /\ \A j \in 1..(i - 1) : ~IsHeader(lines, j)

\* The last line of the run of header lines that begins at line i.
RunEnd(lines, i) ==
  CHOOSE k \in i..Len(lines) :
    /\ \A j \in i..k : IsHeader(lines, j)
    /\ k < Len(lines) => ~IsHeader(lines, k + 1)

\* C26: findSigilInsertionLine returns 0 for a file without header lines
\* and otherwise the index just after the last line of the first run of
\* header lines (indices counted from 0); the result is between 0 and the
\* number of lines.
C26_AfterFirstHeaderRun ==
  output.fn = "findSigilInsertionLine" =>
    /\ output.ret \in 0..Len(input)
    /\ IF \A i \in 1..Len(input) : ~IsHeader(input, i) THEN output.ret = 0
       ELSE output.ret = RunEnd(input, FirstHeader(input))

\* The headers are followed by a comment and a blank line, with a second
\* header further down: the result is the index after the first run.
C26_Witness ==
  /\ output.fn = "findSigilInsertionLine"
  /\ input = <<"typed", "comment", "blank", "frozen">>
  /\ output.ret = 1

\* ------------------------------------------------------------------- C27
\* The number of header lines that a file begins with.
Headers(lines) ==
  IF IsHeader(lines, 1) THEN RunEnd(lines, 1) ELSE 0

\* The headers at the top of the file are followed by one blank line and
\* then by the code, and the file has no '# pack_public: true' line.
HeadersBlankCode(lines) ==
  /\ Headers(lines) > 0
  /\ Len(lines) >= Headers(lines) + 2
  /\ lines[Headers(lines) + 1] = "blank"
  /\ lines[Headers(lines) + 2] = "code"
  /\ \A i \in 1..Len(lines) : lines[i] # "sigil"

\* C27: when the headers are followed by a blank line, making a constant
\* public yields the header lines, the line '# pack_public: true', exactly
\* one blank line and then the code.
C27_BlankLineKept ==
  output.fn = "makePublic" /\ HeadersBlankCode(input) =>
    output.ret = SubSeq(input, 1, Headers(input)) \o <<"sigil", "blank">>
                   \o SubSeq(input, Headers(input) + 2, Len(input))

\* ------------------------------------------------------------------- C28
\* The source tag that the provider takes for the checker's.
CheckerSource == "packwerk"

\* The actions with the given title that are attached to diagnostic d.
ActionsOf(ret, title, d) ==
  {k \in 1..Len(ret) : ret[k].title = title /\ ret[k].diagnostics = <<d>>}

C30_BusyIffQueued ==
  /\ busy <=> tasks # << >>
  /\ busy => awaited = Head(tasks)
  /\ ~busy => awaited = 0

\* The first task has left the queue, the drain loop has gone on to the
\* second, and a third, enqueued while the queue was busy, waits behind it.
C30_Witness ==
  /\ Len(enq) = 3
  /\ Left(enq[1])
  /\ tasks = <<enq[2], enq[3]>>
  /\ busy
  /\ tk[enq[2]].promise = "pending"
  /\ tk[enq[3]].promise = "none"

\* ------------------------------------------------------------------- C31
\* Task t was enqueued and not canceled, and this step cancels it.
NewlyCanceled(t) == tk[t].isEnqueued /\ ~tk[t].isCanceled /\ tk'[t].isCanceled

\* This step enqueues a task of one of the kinds for the identity u.
EnqueuesFor(u, kinds) ==
  \E s \in Tasks :
    /\ ~Has(enq, s) /\ Has(enq', s)
    /\ tk'[s].kind \in kinds
    /\ tk'[s].uri = u

\* The run of task t ended without results to apply: no output, output that
\* is not JSON, a handler that threw, or a body that threw before spawning.
Failed(t) ==
  \/ tk[t].cb \in {"noOutput", "parseFailed", "threw"}
  \/ tk[t].promise = "rejected"

\* C31: a single-file check enqueued for a file is canceled only by a step
\* that enqueues a later single-file check of that file or by a clear (the
\* one step that cancels without enqueueing), so that a highlight run for
\* the file never cancels it; and, with every process delivering its
\* callback, a check that is not canceled eventually applies its results
\* unless its run failed.
C31_CheckApplies ==
  /\ [][\A t \in Tasks :
          (tk[t].kind = "execute" /\ NewlyCanceled(t)) =>
             (enq' = enq \/ EnqueuesFor(tk[t].uri, {"execute"}))]_vars
  /\ \A t \in Tasks :
       (tk[t].kind = "execute" /\ tk[t].isEnqueued) ~>
          (tk[t].cb = "applied" \/ Failed(t) \/ tk[t].isCanceled)

\* ------------------------------------------------------------------- C32
\* C32: while highlighting is toggled off, the highlight diagnostic
\* collection is empty, also when a highlight run that was enqueued while
\* highlighting was on delivers its results after the toggle-off.
C32_OffMeansEmpty == ~highlightsEnabled => highlightDiag = NoDiagnostics

\* ------------------------------------------------------------------- C33
\* C33: every task of a document's identity that exists when clear is called
\* for the document is canceled from then on, whether it waits in the queue,
\* runs or was killed before; the completion callback of such a task changes
\* no violation diagnostic and reports no highlight; and a canceled task in
\* the queue that no clear met has a later task of its own identity behind
\* it, so that a clear cancels no task of another identity.
C33_ClearedNeverSets ==
  /\ \A t \in DOMAIN tk : tk[t].cleared => tk[t].isCanceled
  /\ (lastExec.task # 0 /\ lastExec.cleared) =>
        /\ diag = lastExec.diagBefore
        /\ "onResults" \notin lastExec.effects
  /\ \A i \in 1..Len(tasks) :
        (tk[tasks[i]].isCanceled /\ ~tk[tasks[i]].cleared) =>
           \E j \in (i + 1)..Len(tasks) : tk[tasks[j]].uri = tk[tasks[i]].uri

\* The process of a check of the document, killed by the clear, has exited
\* with violations for the document and its callback has run, while the
\* whole-workspace check enqueued before the clear is in the queue, not
\* canceled.
C33_Witness ==
  /\ lastExec.task # 0 /\ lastExec.cleared /\ lastExec.kind = "execute"
  /\ lastExec.out.kind = "json" /\ lastExec.out.res.violations # << >>
  /\ \E i \in 1..Len(tasks) : tk[tasks[i]].kind = "all" /\ ~tk[tasks[i]].isCanceled

C35_UnparsedKeepsDiag ==
  (/\ lastExec.kind \in {"execute", "all"}
   /\ lastExec.out.kind \in {"empty", "malformed"}) =>
     diag = lastExec.diagBefore

\* A whole-workspace check has ended with empty output while the collection
\* holds the diagnostics of an earlier run, and still holds them.
C35_Witness ==
  /\ lastExec.kind = "all" /\ ~lastExec.canceled
  /\ lastExec.out.kind = "empty"
  /\ diag # NoDiagnostics

\* ------------------------------------------------------------------- C36
\* C36: the callback of a validate run that was not canceled leaves the
\* cycle-validation collection holding the cycle diagnostics of its own
\* output and nothing else: none after empty output, after output that is
\* not JSON and after a result without validation errors; and it leaves the
\* violation diagnostic collection as it was.
C36_ValidateReplaces ==
  (lastExec.kind = "validate" /\ ~lastExec.canceled) =>
     /\ validateDiag = (IF lastExec.out.kind = "json"
                          THEN [f \in Uris |-> CycleDiagnostics(lastExec.out.edges, f)]
                          ELSE NoDiagnostics)
     /\ (lastExec.out.kind # "json" \/ lastExec.out.edges = << >>) =>
           validateDiag = NoDiagnostics
     /\ diag = lastExec.diagBefore

\* A validate run has ended with output that is not JSON while violation
\* diagnostics exist; the cycle diagnostics of an earlier run are gone.
C36_Witness ==
  /\ lastExec.kind = "validate" /\ ~lastExec.canceled
  /\ lastExec.out.kind = "malformed"
  /\ diag # NoDiagnostics
  /\ validateDiag = NoDiagnostics

\* ------------------------------------------------------------------- C37
\* C37: at most one list-definitions process started by refresh is
\* outstanding, isLoading is true exactly while one is, and a refresh
\* called while a load is in progress starts no process.
C37_OneLoad ==
  /\ [](listing <= 1 /\ (isLoading <=> listing = 1))
  /\ [][(output'.fn = "refresh" /\ isLoading) => listing' = listing]_vars

\* refresh was called while the process of an earlier refresh was
\* outstanding, after a first load had ended.
C37_Witness ==
  /\ output.fn = "refresh" /\ output.skipped
  /\ isLoading /\ listing = 1
  /\ Len(refreshes) = 3 /\ refreshes[1].state = "resolved" /\ refreshes[2].state = "pending"

\* ------------------------------------------------------------------- C38
\* C38: a promise returned by refresh is resolved only when a
\* list-definitions run that completed after the call has replaced the
\* contents of the cache.
C38_ResolvedMeansLoaded ==
  \A i \in 1..Len(refreshes) : refreshes[i].state = "resolved" => refreshes[i].loaded

\* ------------------------------------------------------------------- C39
C39_Step ==
  /\ (output'.fn = "refresh" /\ ~rootPath) =>
       /\ refreshes'[Len(refreshes')].state = "rejected"
       /\ cache' = cache
       /\ ~isLoading'
  /\ (output'.fn = "list-definitions callback" /\ output'.error) =>
       /\ \E p \in 1..Len(refreshes) :
            refreshes[p].state = "pending" /\ refreshes'[p].state = "rejected"
       /\ cache' = cache
       /\ ~isLoading'
  /\ (output'.fn = "refresh" /\ rootPath /\ ~isLoading) =>
       /\ listing' = listing + 1
       /\ refreshes'[Len(refreshes')].state = "pending"

\* C39: a refresh without a workspace folder, and one whose process reports
\* an error, reject the promise they returned, leave the cache as it was and
\* leave isLoading false, and a refresh called with a folder while isLoading
\* is false starts a process.
C39_FailedRefresh == [][C39_Step]_vars

\* After a load that filled the cache, the process of a second refresh has
\* reported an error and a third refresh has started a process.
C39_Witness ==
  /\ Len(refreshes) = 3
  /\ refreshes[1].state = "resolved" /\ cache # NoEntries
  /\ refreshes[2].state = "rejected"
  /\ refreshes[3].state = "pending" /\ listing = 1

\* ------------------------------------------------------------------- C40
\* The command line of a task of kind k built from the executable exe.
CommandFrom(k, exe) ==
  CASE k = "highlight" -> exe \o <<"--json", "--ignore-recorded-violations">>
    [] k = "validate" -> GetBaseExecutable(exe) \o <<"validate", "--json">>
    [] OTHER -> exe \o <<"--json">>

\* C40: when the body of a single-file, whole-workspace, highlight or
\* validate task starts and spawns its process, the command line is built
\* from the executable of the configuration that Pks holds at that moment.
C40_ExecutableAtStart ==
  [][\A t \in Tasks :
       (tk[t].proc = "none" /\ tk'[t].proc = "running") =>
          tk'[t].command = CommandFrom(tk'[t].kind, executable)]_vars

====
